---- MODULE Spec2Model ----
(***************************************************************************)
(* VOPL specification editor: the project store, the heuristic scorer      *)
(* (getMockScore), the external analysis adapter (analyzeSpec) and field   *)
(* autogeneration (autogenField).                                          *)
(*                                                                         *)
(* Strings are TLA+ strings; Len, \o and SubSeq act on them as on JS       *)
(* strings.  JS numbers are modelled by exact rational arithmetic on       *)
(* integers: Math.round(n/d) is RoundDiv(n, d).  For projects of at most   *)
(* six nodes the IEEE-754 double results of getMockScore coincide with the *)
(* exact ones (checked by enumeration of all filled/sum/unconnected        *)
(* combinations).                                                          *)
(***************************************************************************)
EXTENDS Integers, Sequences, FiniteSets, TLC

VARIABLES
    project,    \* store: project (nodes, edges, systemContext)
    nextId,     \* number of the next value handed out by crypto.randomUUID()
    opsLeft,    \* remaining store operations of the run
    apiKey,     \* ANTHROPIC_API_KEY is configured
    score,      \* result of the last scorer / analyzeSpec call, or None
    scored,     \* the project that call was given
    prevScore,  \* result of the call before it, when made on the same project
    analysis,   \* outcome of the last analyzeSpec call, or None
    analysed,   \* the project that call was given
    extCalls,   \* number of client.messages.create calls issued
    autogen,    \* outcome of the last autogenField call, or None
    autogenCtx, \* the AutogenContext that call was given
    callsLeft,  \* remaining analyzeSpec / autogenField calls of the run
    specScore,       \* store: project.specScore, or None
    isAnalyzing,     \* store: isAnalyzing
    lastAnalyzedRef, \* SpecOMeter: lastAnalyzedRef.current
    debounceRef,     \* SpecOMeter: the pending timer of debounceRef.current, or None
    sinceChange,     \* ms since nodes, edges or systemContext last changed (capped)
    settle,          \* what happened since that change: hash differed, analyses started
    inflight,        \* analyzeSpec calls awaited by SpecOMeter
    lastCompleted,   \* the SpecScore the last completed of them returned, or None
    infer,           \* outcome of the last inferFieldFrom... call, or None
    exportedFile,    \* the file of the last JSON export, or None
    imported,        \* the last import: the project exported and the one loaded, or None
    projectId,       \* store: project.id
    selectedNodeId   \* store: selectedNodeId, or Null

vars == <<project, nextId, opsLeft, apiKey, score, scored, prevScore, analysis,
          analysed, extCalls, autogen, autogenCtx, callsLeft, specScore,
          isAnalyzing, lastAnalyzedRef, debounceRef, sinceChange, settle,
          inflight, lastCompleted, infer, exportedFile,
          imported, projectId, selectedNodeId>>

\* what the store operations leave alone
callVars == <<apiKey, score, scored, prevScore, analysis, analysed,
              extCalls, autogen, autogenCtx, callsLeft, specScore, isAnalyzing,
              lastAnalyzedRef, inflight, lastCompleted, infer, exportedFile,
              imported, projectId>>

\* what the debounce effect of SpecOMeter writes
debounceVars == <<debounceRef, sinceChange, settle>>

\* what only SpecOMeter writes
uiVars == <<specScore, isAnalyzing, lastAnalyzedRef, inflight, lastCompleted>>

None == [t |-> "none"]

\* selectedNodeId: null
Null == "null"

----------------------------------------------------------------------------
(* Bounds *)

MaxOps == 3          \* store operations per run (Spec)
MaxOpsAnalyze == 2   \* store operations per run (SpecAnalyze, SpecNoKey)
MaxCalls == 2        \* analyzeSpec / autogenField calls per run
MaxWide == 11        \* nodes per project (SpecWide)
MaxWideEdges == 1    \* edges per project (SpecWide)
MaxClock == 2        \* values of Date.now()
MaxOpsRoundTrip == 4 \* store operations per run, imports included (SpecRoundTrip)
MaxRefresh == 1      \* clicks on Refresh per run (SpecSettle)
MaxOpsGraph == 4     \* store operations per run (SpecGraph)

----------------------------------------------------------------------------
(* String helpers *)

\* String.prototype.startsWith
StartsWith(s, p) == Len(s) >= Len(p) /\ SubSeq(s, 1, Len(p)) = p

\* JS truthiness of a string
Truthy(s) == s # ""

RECURSIVE SumSeq(_)
SumSeq(s) == IF s = <<>> THEN 0 ELSE Head(s) + SumSeq(Tail(s))

\* Array.prototype.some
Some(s, P(_)) == \E i \in 1..Len(s) : P(s[i])

\* Math.round(n / d) for d > 0: nearest integer, halves towards +infinity
RoundDiv(n, d) == (2 * n + d) \div (2 * d)

----------------------------------------------------------------------------
(* JavaScript values of unknown shape: what JSON.parse returns *)

JUndefined == [t |-> "undefined"]
JNull == [t |-> "null"]
JNum(n) == [t |-> "number", n |-> n]
JStr(s) == [t |-> "string", s |-> s]
JArr(items) == [t |-> "array", items |-> items]
JObj(props) == [t |-> "object", props |-> props]

Nullish(v) == v.t \in {"undefined", "null"}

Falsy(v) ==
    \/ Nullish(v)
    \/ (v.t = "number" /\ v.n = 0)
    \/ (v.t = "string" /\ v.s = "")

\* v || d
OrElse(v, d) == IF Falsy(v) THEN d ELSE v

\* v.k for a v that is neither null nor undefined
GetProp(v, k) ==
    IF v.t = "object" /\ k \in DOMAIN v.props THEN v.props[k] ELSE JUndefined

\* A response text is represented by the JSON document it denotes, or as a
\* text that is not JSON.
JSONText(v) == [valid |-> TRUE, value |-> v]
NotJSON == [valid |-> FALSE]

\* JSON.parse
JSONparse(text) ==
    IF text.valid THEN [threw |-> FALSE, value |-> text.value] ELSE [threw |-> TRUE]

\* Outcomes of client.messages.create
ApiError == [kind |-> "error"]
Message(content) == [kind |-> "message", content |-> content]
TextBlock(text) == [type |-> "text", text |-> text]
ToolUseBlock == [type |-> "tool_use"]

Threw == [threw |-> TRUE]
Returned(v) == [threw |-> FALSE, value |-> v]

----------------------------------------------------------------------------
(* types/vopl *)

NodeTypes == {"trigger", "process", "integration", "output"}

Port(n, d, s) == [name |-> n, description |-> d, shape |-> s]
Example(i, o, n) == [input |-> i, output |-> o, notes |-> n]

defaultNodeData(type) ==
    CASE type = "trigger" ->
           [name |-> "New Trigger",
            intent |-> "Describe what triggers this flow...",
            inputs |-> <<>>,
            outputs |-> <<Port("payload", "Output data from trigger", "unknown")>>,
            behavior |-> "## Trigger Type\n[HTTP endpoint / Cron schedule / Event listener / Manual trigger]\n\n## Details\nDescribe the trigger conditions...",
            examples |-> <<Example("{}", "{}", "Example scenario")>>,
            constraints |-> <<>>]
      [] type = "process" ->
           [name |-> "New Process",
            intent |-> "Describe the processing logic...",
            inputs |-> <<Port("input", "Input data to process", "unknown")>>,
            outputs |-> <<Port("result", "Processed output", "unknown")>>,
            behavior |-> "## Logic\nDescribe what this process does...\n\n## Error Handling\nHow should errors be handled?",
            examples |-> <<Example("{}", "{}", "Example transformation")>>,
            constraints |-> <<>>]
      [] type = "integration" ->
           [name |-> "New Integration",
            intent |-> "Describe the external service interaction...",
            inputs |-> <<Port("request", "Data to send to service", "unknown")>>,
            outputs |-> <<Port("response", "Response from service", "unknown")>>,
            behavior |-> "## Service\n[Database / API / Cache / Message Queue / etc.]\n\n## Operation\nDescribe the operation (read/write/call)...\n\n## Configuration\nConnection details shape...",
            examples |-> <<Example("{}", "{}", "Example interaction")>>,
            constraints |-> <<>>]
      [] type = "output" ->
           [name |-> "New Output",
            intent |-> "Describe the output/response...",
            inputs |-> <<Port("data", "Data to output", "unknown")>>,
            outputs |-> <<>>,
            behavior |-> "## Output Type\n[HTTP response / File / Notification / etc.]\n\n## Format\nDescribe the output format...",
            examples |-> <<Example("{}", "{}", "Example output")>>,
            constraints |-> <<>>]

\* the keys of SystemContext, in declaration order
ContextFields ==
    <<"environment", "constraints", "infrastructure", "dependencies",
      "security", "nonFunctional">>

defaultSystemContext ==
    [environment |-> "", constraints |-> "", infrastructure |-> "",
     dependencies |-> "", security |-> "", nonFunctional |-> ""]

----------------------------------------------------------------------------
(* stores/projectStore *)

createEmptyProject ==
    [systemContext |-> defaultSystemContext, nodes |-> <<>>, edges |-> <<>>]

\* Inputs of the store operations.

\* a text of 36 characters
LongText == "Node.js 20.x runtime on Linux server"

\* a context whose first k fields hold text t, the others empty
ContextWith(k, t) ==
    [f \in {ContextFields[i] : i \in 1..6} |->
        IF \E i \in 1..k : ContextFields[i] = f THEN t ELSE ""]

\* SystemContext values passed to setSystemContext; the last two hold texts of
\* 10 and of 11 characters
ContextSamples == <<
    ContextWith(1, LongText), ContextWith(2, LongText), ContextWith(3, LongText),
    ContextWith(4, LongText), ContextWith(5, LongText), ContextWith(6, LongText),
    ContextWith(6, "PostgreSQL"), ContextWith(3, "Linux 6.1.0") >>

\* Partial<VOPLNodeData> values passed to updateNode
PatchSamples == <<
    [name |-> "Validate Input"],
    [name |-> ""],
    [intent |-> "Validate the input"],
    [intent |-> "Validate user input."],
    [intent |-> "Validate the registration request body"],
    [behavior |-> "Reject the request when the body is not valid, else pass it on."],
    [inputs |-> <<Port("body", "Request body", "{ email: string }")>>],
    [inputs |-> <<Port("body", "", "")>>],
    [outputs |-> <<Port("result", "", "unknown"), Port("user", "", "User")>>],
    [examples |-> <<>>],
    [intent |-> "", behavior |-> "", examples |-> <<>>] >>

Get(p, f, dflt) == IF f \in DOMAIN p THEN p[f] ELSE dflt

\* { ...node.data, ...data }
MergeData(d, p) ==
    [name |-> Get(p, "name", d.name),
     intent |-> Get(p, "intent", d.intent),
     inputs |-> Get(p, "inputs", d.inputs),
     outputs |-> Get(p, "outputs", d.outputs),
     behavior |-> Get(p, "behavior", d.behavior),
     examples |-> Get(p, "examples", d.examples),
     constraints |-> Get(p, "constraints", d.constraints)]

NodeIds(p) == {p.nodes[i].id : i \in 1..Len(p.nodes)}

\* SpecOMeter's projectHash: the text JSON.stringify gives for the ids and data
\* of the nodes, the edges and the system context.  Two projects give the same
\* text exactly when these records are equal.
projectHash(p) ==
    [nodes |-> [i \in 1..Len(p.nodes) |-> [id |-> p.nodes[i].id, data |-> p.nodes[i].data]],
     edges |-> p.edges,
     systemContext |-> p.systemContext]

\* lastAnalyzedRef before any analysis: the empty string
EmptyHash == [nodes |-> <<>>]

DebounceMs == 2000

\* the effect leaves a pending timer running instead of replacing it
useEffectDebounce_KeepsTimer(p) ==
    /\ debounceRef' = IF projectHash(p) = lastAnalyzedRef THEN None
                      ELSE IF debounceRef # None THEN [debounceRef EXCEPT !.project = p]
                      ELSE [project |-> p, age |-> 0]
    /\ sinceChange' = 0
    /\ settle' = [differed |-> projectHash(p) # lastAnalyzedRef, autos |-> 0]

\* SpecOMeter's effect, run when project.nodes, project.edges or
\* project.systemContext is a new object: the cleanup of the previous run clears
\* the pending timer, then a timer is set unless the hash is the analysed one.
\* The timer's callback holds the rendered project p.
useEffectDebounce(p) ==
    /\ debounceRef' = IF projectHash(p) = lastAnalyzedRef THEN None
                      ELSE [project |-> p, age |-> 0]
    /\ sinceChange' = 0
    /\ settle' = [differed |-> projectHash(p) # lastAnalyzedRef, autos |-> 0]

\* crypto.randomUUID(): a string no earlier call returned
randomUUID(n) == ToString(n)

addNode(type) ==
    /\ opsLeft > 0
    /\ LET newNode == [id |-> randomUUID(nextId), type |-> type, data |-> defaultNodeData(type)]
       IN project' = [project EXCEPT !.nodes = Append(@, newNode)]
    /\ selectedNodeId' = randomUUID(nextId)
    /\ nextId' = nextId + 1
    /\ opsLeft' = opsLeft - 1
    /\ useEffectDebounce(project')
    /\ UNCHANGED callVars

updateNode(nodeId, data) ==
    /\ opsLeft > 0
    /\ project' = [project EXCEPT !.nodes =
           [i \in 1..Len(@) |->
               IF @[i].id = nodeId
               THEN [@[i] EXCEPT !.data = MergeData(@, data)]
               ELSE @[i]]]
    /\ opsLeft' = opsLeft - 1
    /\ useEffectDebounce(project')
    /\ UNCHANGED <<nextId, selectedNodeId, callVars>>

setSystemContext(context) ==
    /\ opsLeft > 0
    /\ project' = [project EXCEPT !.systemContext = context]
    /\ opsLeft' = opsLeft - 1
    /\ useEffectDebounce(project')
    /\ UNCHANGED <<nextId, selectedNodeId, callVars>>

\* A Connection of @xyflow/react.  A handle is a port name; the empty string
\* stands for both falsy handles, null and ''.
Connection(source, target, sourceHandle, targetHandle) ==
    [source |-> source, target |-> target,
     sourceHandle |-> sourceHandle, targetHandle |-> targetHandle]

\* h || undefined
OrUndefined(h) == IF h = "" THEN "undefined" ELSE h

\* @xyflow/react addEdge: an edge with the same endpoints and handles is not
\* added twice
connectionExists(edge, edges) ==
    \E i \in 1..Len(edges) :
        /\ edges[i].source = edge.source
        /\ edges[i].target = edge.target
        /\ edges[i].sourceHandle = edge.sourceHandle
        /\ edges[i].targetHandle = edge.targetHandle

\* @xyflow/react addEdge returns the same array when the connection exists, and
\* then no dependency of SpecOMeter's effect has changed
addEdge(connection) ==
    /\ opsLeft > 0
    /\ LET newEdge == [id |-> randomUUID(nextId),
                       source |-> connection.source,
                       target |-> connection.target,
                       sourceHandle |-> OrUndefined(connection.sourceHandle),
                       targetHandle |-> OrUndefined(connection.targetHandle),
                       data |-> JUndefined]
       IN IF connectionExists(newEdge, project.edges)
          THEN UNCHANGED <<project, debounceVars>>
          ELSE /\ project' = [project EXCEPT !.edges = Append(@, newEdge)]
               /\ useEffectDebounce(project')
    /\ nextId' = nextId + 1
    /\ opsLeft' = opsLeft - 1
    /\ UNCHANGED <<selectedNodeId, callVars>>

\* onNodesChange with position, dimension or selection changes: project.nodes is
\* a new array whose nodes keep their ids, types and data
onNodesChange ==
    /\ opsLeft > 0
    /\ Len(project.nodes) > 0
    /\ project' = project
    /\ opsLeft' = opsLeft - 1
    /\ useEffectDebounce(project')
    /\ UNCHANGED <<nextId, selectedNodeId, callVars>>

\* Array.prototype.filter: the elements at the indices kept, in order
filter(seq, keep) ==
    LET RECURSIVE from(_)
        from(i) == IF i > Len(seq) THEN <<>>
                   ELSE IF i \in keep THEN <<seq[i]>> \o from(i + 1)
                   ELSE from(i + 1)
    IN from(1)

\* the edges of a deleted node are kept
deleteNode_KeepsEdges(nodeId) ==
    /\ opsLeft > 0
    /\ project' = [project EXCEPT
           !.nodes = filter(@, {i \in 1..Len(@) : @[i].id # nodeId})]
    /\ selectedNodeId' = IF selectedNodeId = nodeId THEN Null ELSE selectedNodeId
    /\ opsLeft' = opsLeft - 1
    /\ useEffectDebounce(project')
    /\ UNCHANGED <<nextId, callVars>>

deleteNode(nodeId) ==
    /\ opsLeft > 0
    /\ project' = [project EXCEPT
           !.nodes = filter(@, {i \in 1..Len(@) : @[i].id # nodeId}),
           !.edges = filter(@, {i \in 1..Len(@) :
                                      @[i].source # nodeId /\ @[i].target # nodeId})]
    /\ selectedNodeId' = IF selectedNodeId = nodeId THEN Null ELSE selectedNodeId
    /\ opsLeft' = opsLeft - 1
    /\ useEffectDebounce(project')
    /\ UNCHANGED <<nextId, callVars>>

deleteEdge(edgeId) ==
    /\ opsLeft > 0
    /\ project' = [project EXCEPT
           !.edges = filter(@, {i \in 1..Len(@) : @[i].id # edgeId})]
    /\ opsLeft' = opsLeft - 1
    /\ useEffectDebounce(project')
    /\ UNCHANGED <<nextId, selectedNodeId, callVars>>

\* selectNode reads and writes nothing of the project
selectNode(nodeId) ==
    /\ opsLeft > 0
    /\ selectedNodeId' = nodeId
    /\ opsLeft' = opsLeft - 1
    /\ UNCHANGED <<project, nextId, debounceVars, callVars>>

\* resetProject: a new empty project with a new id and no specScore
resetProject ==
    /\ opsLeft > 0
    /\ project' = createEmptyProject
    /\ projectId' = randomUUID(nextId)
    /\ specScore' = None
    /\ selectedNodeId' = Null
    /\ nextId' = nextId + 1
    /\ opsLeft' = opsLeft - 1
    /\ useEffectDebounce(project')
    /\ UNCHANGED <<apiKey, score, scored, prevScore, analysis, analysed, extCalls,
                   autogen, autogenCtx, callsLeft, isAnalyzing, lastAnalyzedRef,
                   inflight, lastCompleted, infer, exportedFile, imported>>

\* setSpecScore: the new project.specScore
setSpecScore_Accumulates(old, new) ==
    IF old = None THEN new ELSE [new EXCEPT !.issues = old.issues \o @]

setSpecScore(old, new) == new

----------------------------------------------------------------------------
(* api/specAnalysis: getMockScore *)

Issue(sev, dim, nodeId, field, msg) ==
    [severity |-> sev, dimension |-> dim, nodeId |-> nodeId, field |-> field,
     message |-> msg]

\* an absent optional string property
Undefined == "undefined"

\* contextFields.filter(v => v && v.length > 10).length
filledContext(p) ==
    Cardinality({f \in DOMAIN p.systemContext :
        Truthy(p.systemContext[f]) /\ Len(p.systemContext[f]) > 10})

definedShape(port) == Truthy(port.shape) /\ port.shape # "unknown"

\* a port whose shape is 'unknown' counts as defined
nodeScore_UnknownCounts(node) ==
      (IF Truthy(node.data.name) /\ ~StartsWith(node.data.name, "New ") THEN 10 ELSE 0)
    + (IF Truthy(node.data.intent) /\ Len(node.data.intent) > 20 THEN 20 ELSE 0)
    + (IF Truthy(node.data.behavior) /\ Len(node.data.behavior) > 50 THEN 30 ELSE 0)
    + (IF Some(node.data.inputs, LAMBDA port : Truthy(port.shape)) THEN 15 ELSE 0)
    + (IF Some(node.data.outputs, LAMBDA port : Truthy(port.shape)) THEN 15 ELSE 0)
    + (IF Len(node.data.examples) > 0 THEN 10 ELSE 0)

\* the score computed by the callback of project.nodes.map
nodeScore(node) ==
      (IF Truthy(node.data.name) /\ ~StartsWith(node.data.name, "New ") THEN 10 ELSE 0)
    + (IF Truthy(node.data.intent) /\ Len(node.data.intent) > 20 THEN 20 ELSE 0)
    + (IF Truthy(node.data.behavior) /\ Len(node.data.behavior) > 50 THEN 30 ELSE 0)
    + (IF Some(node.data.inputs, definedShape) THEN 15 ELSE 0)
    + (IF Some(node.data.outputs, definedShape) THEN 15 ELSE 0)
    + (IF Len(node.data.examples) > 0 THEN 10 ELSE 0)

\* an empty intent raises no issue
needsIntent_Truthy(node) ==
    Truthy(node.data.intent)
    /\ (Len(node.data.intent) < 20 \/ StartsWith(node.data.intent, "Describe"))

needsIntent(node) ==
    Len(node.data.intent) < 20 \/ StartsWith(node.data.intent, "Describe")

contextIssues(p) ==
    IF filledContext(p) < 3
    THEN <<Issue("warning", "completeness", Undefined, Undefined,
                 "System context is incomplete. Fill in environment, infrastructure, and dependencies.")>>
    ELSE <<>>

\* an intent of exactly 20 characters raises the issue too
RECURSIVE intentIssues_AtMost20(_)
intentIssues_AtMost20(nodes) ==
    IF nodes = <<>> THEN <<>>
    ELSE (IF Len(Head(nodes).data.intent) <= 20 \/ needsIntent(Head(nodes))
          THEN <<Issue("warning", "ambiguity", Head(nodes).id, "intent",
                       "\"" \o Head(nodes).data.name \o "\" needs a clearer intent description.")>>
          ELSE <<>>) \o intentIssues_AtMost20(Tail(nodes))

RECURSIVE intentIssues(_)
intentIssues(nodes) ==
    IF nodes = <<>> THEN <<>>
    ELSE (IF needsIntent(Head(nodes))
          THEN <<Issue("warning", "ambiguity", Head(nodes).id, "intent",
                       "\"" \o Head(nodes).data.name \o "\" needs a clearer intent description.")>>
          ELSE <<>>) \o intentIssues(Tail(nodes))

nodeIssues(p) ==
    IF Len(p.nodes) = 0
    THEN <<Issue("error", "completeness", Undefined, Undefined,
                 "No nodes defined. Add at least one trigger and one output node.")>>
    ELSE intentIssues(p.nodes)

\* completenessScore as the fraction CompletenessNum / CompletenessDen
CompletenessDen(p) ==
    IF Len(p.nodes) = 0 THEN 1
    ELSE Cardinality(DOMAIN p.systemContext) * Len(p.nodes) * 100

CompletenessNum(p) ==
    IF Len(p.nodes) = 0 THEN 10
    ELSE filledContext(p) * 20 * Len(p.nodes) * 100
         + SumSeq([i \in 1..Len(p.nodes) |-> nodeScore(p.nodes[i])]) * 80
               * Cardinality(DOMAIN p.systemContext)

isUnconnected(node, edges) ==
    LET hasIncoming == \E i \in 1..Len(edges) : edges[i].target = node.id
        hasOutgoing == \E i \in 1..Len(edges) : edges[i].source = node.id
    IN ~hasIncoming /\ ~hasOutgoing

\* nodes.filter(isUnconnected)
RECURSIVE filterUnconnected(_, _)
filterUnconnected(nodes, edges) ==
    IF nodes = <<>> THEN <<>>
    ELSE (IF isUnconnected(Head(nodes), edges) THEN <<Head(nodes)>> ELSE <<>>)
         \o filterUnconnected(Tail(nodes), edges)

\* the penalty is not skipped for a graph without edges
unconnectedNodes_NoEdgeGuard(p) == filterUnconnected(p.nodes, p.edges)

unconnectedNodes(p) ==
    IF Len(p.edges) > 0 THEN filterUnconnected(p.nodes, p.edges) ELSE <<>>

consistencyScoreOf(p) == 80 - Len(unconnectedNodes(p)) * 10

edgeIssues(p) ==
    LET un == unconnectedNodes(p)
    IN [i \in 1..Len(un) |->
           Issue("warning", "consistency", un[i].id, Undefined,
                 "\"" \o un[i].data.name \o "\" is not connected to any other node.")]

\* an integration node counts as an output node
structureIssues_IntegrationIsOutput(p) ==
    LET hasTrigger == \E i \in 1..Len(p.nodes) : p.nodes[i].type = "trigger"
        hasOutput == \E i \in 1..Len(p.nodes) : p.nodes[i].type \in {"output", "integration"}
    IN (IF ~hasTrigger /\ Len(p.nodes) > 0
        THEN <<Issue("info", "completeness", Undefined, Undefined,
                     "Consider adding a Trigger node to define how the flow starts.")>>
        ELSE <<>>)
       \o
       (IF ~hasOutput /\ Len(p.nodes) > 0
        THEN <<Issue("info", "completeness", Undefined, Undefined,
                     "Consider adding an Output node to define the flow result.")>>
        ELSE <<>>)

\* the nudges are not skipped for a graph without nodes
structureIssues_NoLengthGuard(p) ==
    LET hasTrigger == \E i \in 1..Len(p.nodes) : p.nodes[i].type = "trigger"
        hasOutput == \E i \in 1..Len(p.nodes) : p.nodes[i].type = "output"
    IN (IF ~hasTrigger
        THEN <<Issue("info", "completeness", Undefined, Undefined,
                     "Consider adding a Trigger node to define how the flow starts.")>>
        ELSE <<>>)
       \o
       (IF ~hasOutput
        THEN <<Issue("info", "completeness", Undefined, Undefined,
                     "Consider adding an Output node to define the flow result.")>>
        ELSE <<>>)

structureIssues(p) ==
    LET hasTrigger == \E i \in 1..Len(p.nodes) : p.nodes[i].type = "trigger"
        hasOutput == \E i \in 1..Len(p.nodes) : p.nodes[i].type = "output"
    IN (IF ~hasTrigger /\ Len(p.nodes) > 0
        THEN <<Issue("info", "completeness", Undefined, Undefined,
                     "Consider adding a Trigger node to define how the flow starts.")>>
        ELSE <<>>)
       \o
       (IF ~hasOutput /\ Len(p.nodes) > 0
        THEN <<Issue("info", "completeness", Undefined, Undefined,
                     "Consider adding an Output node to define the flow result.")>>
        ELSE <<>>)

AllSuggestions == <<
    "Add detailed behavior descriptions with error handling to each node.",
    "Define explicit data shapes (types) for all inputs and outputs.",
    "Include examples for edge cases, not just happy paths.",
    "Fill in the System Context to provide implementation context.",
    "Ensure all nodes are connected in the data flow." >>

\* overall is computed from the rounded completeness
overallOf_FromRounded(cNum, cDen, a, k, g) ==
    RoundDiv(35 * RoundDiv(cNum, cDen) + 25 * a + 25 * k + 15 * g, 100)

\* Math.round(c * 0.35 + a * 0.25 + k * 0.25 + g * 0.15), c = cNum / cDen
overallOf(cNum, cDen, a, k, g) ==
    RoundDiv(35 * cNum + (25 * a + 25 * k + 15 * g) * cDen, 100 * cDen)

Dimension(s) == [score |-> s, details |-> <<>>]

\* the suggestions offered rotate with the clock
getMockScore_ClockRotates(p, now) ==
    [overall |-> overallOf(CompletenessNum(p), CompletenessDen(p),
                           50, consistencyScoreOf(p), 60),
     completeness |-> Dimension(RoundDiv(CompletenessNum(p), CompletenessDen(p))),
     ambiguity |-> Dimension(50),
     consistency |-> Dimension(consistencyScoreOf(p)),
     groundedness |-> Dimension(60),
     issues |-> contextIssues(p) \o nodeIssues(p) \o edgeIssues(p) \o structureIssues(p),
     suggestions |-> SubSeq(AllSuggestions, 1 + (now % 3), 3 + (now % 3)),
     lastUpdated |-> now]

getMockScore(p, now) ==
    LET ambiguityScore == 50
        consistencyScore == consistencyScoreOf(p)
        groundednessScore == 60
    IN [overall |-> overallOf(CompletenessNum(p), CompletenessDen(p),
                              ambiguityScore, consistencyScore, groundednessScore),
        completeness |-> Dimension(RoundDiv(CompletenessNum(p), CompletenessDen(p))),
        ambiguity |-> Dimension(ambiguityScore),
        consistency |-> Dimension(consistencyScore),
        groundedness |-> Dimension(groundednessScore),
        issues |-> contextIssues(p) \o nodeIssues(p) \o edgeIssues(p) \o structureIssues(p),
        suggestions |-> SubSeq(AllSuggestions, 1, 3),
        lastUpdated |-> now]

----------------------------------------------------------------------------
(* api/specAnalysis: analyzeSpec *)

DimensionNames == {"completeness", "ambiguity", "consistency", "groundedness"}

\* a SpecScore of getMockScore as JavaScript values
JStrings(s) == JArr([i \in 1..Len(s) |-> JStr(s[i])])
JOptional(s) == IF s = Undefined THEN JUndefined ELSE JStr(s)
JDimension(d) == [score |-> JNum(d.score), details |-> JStrings(d.details)]

ToJS(s) ==
    [overall |-> JNum(s.overall),
     completeness |-> JDimension(s.completeness),
     ambiguity |-> JDimension(s.ambiguity),
     consistency |-> JDimension(s.consistency),
     groundedness |-> JDimension(s.groundedness),
     issues |-> [i \in 1..Len(s.issues) |->
                    [severity |-> JStr(s.issues[i].severity),
                     dimension |-> JStr(s.issues[i].dimension),
                     nodeId |-> JOptional(s.issues[i].nodeId),
                     field |-> JOptional(s.issues[i].field),
                     message |-> JStr(s.issues[i].message)]],
     suggestions |-> JStrings(s.suggestions),
     lastUpdated |-> s.lastUpdated]

\* the object literal returned inside the try block; evaluating it throws a
\* TypeError on a property read of null / undefined and on .map of a non-array
normalizeResult(result, now) ==
    LET issues == IF Nullish(result) THEN JUndefined
                  ELSE OrElse(GetProp(result, "issues"), JArr(<<>>))
        dim(name) ==
            [score |-> GetProp(GetProp(result, name), "score"),
             details |-> OrElse(GetProp(GetProp(result, name), "details"), JArr(<<>>))]
    IN IF \/ Nullish(result)
          \/ \E name \in DimensionNames : Nullish(GetProp(result, name))
          \/ issues.t # "array"
          \/ \E i \in 1..Len(issues.items) : Nullish(issues.items[i])
       THEN Threw
       ELSE Returned(
           [overall |-> GetProp(result, "overall"),
            completeness |-> dim("completeness"),
            ambiguity |-> dim("ambiguity"),
            consistency |-> dim("consistency"),
            groundedness |-> dim("groundedness"),
            issues |-> [i \in 1..Len(issues.items) |->
                LET issue == issues.items[i]
                IN [severity |-> OrElse(GetProp(issue, "severity"), JStr("warning")),
                    dimension |-> OrElse(GetProp(issue, "dimension"), JStr("completeness")),
                    nodeId |-> OrElse(GetProp(issue, "nodeId"), JUndefined),
                    field |-> OrElse(GetProp(issue, "field"), JUndefined),
                    message |-> OrElse(GetProp(issue, "message"), JStr("Unknown issue"))]],
            suggestions |-> OrElse(GetProp(result, "suggestions"), JArr(<<>>)),
            lastUpdated |-> now])

\* the first text block of a response, parsed; throws as the code does
parseResponse(response) ==
    IF response.kind = "error" THEN Threw
    ELSE IF Len(response.content) = 0 THEN Threw
    ELSE IF response.content[1].type # "text" THEN Threw
    ELSE JSONparse(response.content[1].text)

\* the try block of analyzeSpec
tryAnalyze(response, now) ==
    LET parsed == parseResponse(response)
    IN IF parsed.threw THEN Threw ELSE normalizeResult(parsed.value, now)

Resolved(v, called) == [status |-> "resolved", value |-> v, called |-> called]
Rejected(called) == [status |-> "rejected", value |-> JUndefined, called |-> called]

\* the catch block rethrows instead of falling back
analyzeSpec_Rethrow(p, key, response, now) ==
    IF ~key THEN Resolved(ToJS(getMockScore(p, now)), FALSE)
    ELSE LET r == tryAnalyze(response, now)
         IN IF r.threw THEN Rejected(TRUE) ELSE Resolved(r.value, TRUE)

\* the credential is not checked before the call
analyzeSpec_NoKeyCheck(p, key, response, now) ==
    LET r == tryAnalyze(response, now)
    IN IF r.threw THEN Resolved(ToJS(getMockScore(p, now)), TRUE)
       ELSE Resolved(r.value, TRUE)

analyzeSpec(p, key, response, now) ==
    IF ~key THEN Resolved(ToJS(getMockScore(p, now)), FALSE)
    ELSE LET r == tryAnalyze(response, now)
         IN IF r.threw THEN Resolved(ToJS(getMockScore(p, now)), TRUE)
            ELSE Resolved(r.value, TRUE)

\* Texts the external model may answer with.
GoodDocument ==
    JObj([overall |-> JNum(72),
          completeness |-> JObj([score |-> JNum(80),
                                 details |-> JArr(<<JStr("Output shapes are missing")>>)]),
          ambiguity |-> JObj([score |-> JNum(65), details |-> JArr(<<>>)]),
          consistency |-> JObj([score |-> JNum(70), details |-> JArr(<<>>)]),
          groundedness |-> JObj([score |-> JNum(75), details |-> JArr(<<>>)]),
          issues |-> JArr(<<JObj([severity |-> JStr("error"),
                                  dimension |-> JStr("consistency"),
                                  nodeId |-> JStr("1"),
                                  field |-> JStr("outputs"),
                                  message |-> JStr("Output shape does not match the next node")])>>),
          suggestions |-> JArr(<<JStr("Define the output shapes")>>)])

Without(obj, k) == JObj([f \in DOMAIN obj.props \ {k} |-> obj.props[f]])
With(obj, k, v) ==
    JObj([f \in DOMAIN obj.props \cup {k} |-> IF f = k THEN v ELSE obj.props[f]])

AnalysisResponses == <<
    ApiError,
    Message(<<>>),
    Message(<<ToolUseBlock>>),
    Message(<<TextBlock(NotJSON)>>),
    Message(<<TextBlock(JSONText(JNull))>>),
    Message(<<TextBlock(JSONText(JNum(42)))>>),
    Message(<<TextBlock(JSONText(GoodDocument))>>),
    Message(<<TextBlock(JSONText(Without(GoodDocument, "overall")))>>),
    Message(<<TextBlock(JSONText(Without(GoodDocument, "completeness")))>>),
    Message(<<TextBlock(JSONText(With(GoodDocument, "ambiguity",
                                      JObj([details |-> JArr(<<>>)]))))>>),
    Message(<<TextBlock(JSONText(With(Without(GoodDocument, "suggestions"), "issues",
                                      JArr(<<JObj([message |-> JStr("Intent is vague")])>>))))>>),
    Message(<<TextBlock(JSONText(With(GoodDocument, "overall", JNum(150))))>>),
    Message(<<TextBlock(JSONText(With(GoodDocument, "issues",
                                      JArr(<<JObj([severity |-> JStr("critical"),
                                                   dimension |-> JStr("security"),
                                                   message |-> JStr("Input is not sanitised")])>>))))>>),
    Message(<<TextBlock(JSONText(With(With(GoodDocument, "overall", JStr("high")),
                                      "consistency", JObj([score |-> JNum(0 - 5)]))))>>) >>

AnalyzeSpec ==
    /\ callsLeft > 0
    /\ \E i \in 1..Len(AnalysisResponses), now \in 1..MaxClock :
          LET r == analyzeSpec(project, apiKey, AnalysisResponses[i], now)
          IN /\ analysis' = [status |-> r.status, value |-> r.value,
                             response |-> IF r.called THEN AnalysisResponses[i] ELSE None]
             /\ extCalls' = extCalls + (IF r.called THEN 1 ELSE 0)
    /\ analysed' = project
    /\ callsLeft' = callsLeft - 1
    /\ UNCHANGED <<project, nextId, opsLeft, apiKey, score, scored, prevScore,
                   autogen, autogenCtx, uiVars, debounceVars, infer, exportedFile,
                   imported, projectId, selectedNodeId>>

----------------------------------------------------------------------------
(* api/specAnalysis: autogenField *)

AutogenFields == {"intent", "behavior", "inputs", "outputs", "examples", "constraints"}

UpperCase == "ABCDEFGHIJKLMNOPQRSTUVWXYZ"
LowerCase == "abcdefghijklmnopqrstuvwxyz"

LowerChar(c) ==
    IF \E i \in 1..Len(UpperCase) : SubSeq(UpperCase, i, i) = c
    THEN LET i == CHOOSE i \in 1..Len(UpperCase) : SubSeq(UpperCase, i, i) = c
         IN SubSeq(LowerCase, i, i)
    ELSE c

\* String.prototype.toLowerCase
RECURSIVE toLowerCase(_)
toLowerCase(s) ==
    IF s = "" THEN ""
    ELSE LowerChar(SubSeq(s, 1, 1)) \o toLowerCase(SubSeq(s, 2, Len(s)))

IsSpace(c) == c \in {" ", "\t", "\n"}

RECURSIVE dropSpaces(_)
dropSpaces(s) ==
    IF s # "" /\ IsSpace(SubSeq(s, 1, 1)) THEN dropSpaces(SubSeq(s, 2, Len(s))) ELSE s

\* s.replace(/^new\s+/i, '')
stripNew(s) ==
    IF Len(s) >= 4 /\ toLowerCase(SubSeq(s, 1, 3)) = "new" /\ IsSpace(SubSeq(s, 4, 4))
    THEN dropSpaces(SubSeq(s, 4, Len(s)))
    ELSE s

HasNode(p, nodeId) == \E i \in 1..Len(p.nodes) : p.nodes[i].id = nodeId

\* project.nodes.find(n => n.id === nodeId), for a nodeId that is found
findNode(p, nodeId) ==
    p.nodes[CHOOSE i \in 1..Len(p.nodes) :
                /\ p.nodes[i].id = nodeId
                /\ \A j \in 1..(i - 1) : p.nodes[j].id # nodeId]

AutogenResult(success, field, value, error) ==
    [success |-> success, field |-> field, value |-> value, error |-> error]

intentPrefix(nodeType) ==
    IF nodeType = "trigger" THEN "Handle incoming"
    ELSE IF nodeType = "process" THEN "Process and transform"
    ELSE IF nodeType = "integration" THEN "Integrate with external service to"
    ELSE "Produce output for"

mockPorts(ports, unknownShape, descriptionPrefix, fallbackPort) ==
    IF Len(ports) > 0
    THEN [i \in 1..Len(ports) |->
             [name |-> ports[i].name,
              shape |-> IF ports[i].shape = "unknown" THEN unknownShape ELSE ports[i].shape,
              description |-> IF Truthy(ports[i].description) THEN ports[i].description
                              ELSE descriptionPrefix \o ports[i].name]]
    ELSE <<fallbackPort>>

\* the intent template quotes the node's present intent
getMockAutogenResult_QuotesIntent(context) ==
    IF ~HasNode(context.project, context.nodeId)
    THEN AutogenResult(FALSE, context.field, JStr(""), "Node not found")
    ELSE LET node == findNode(context.project, context.nodeId)
         IN AutogenResult(TRUE, context.field,
                JStr(intentPrefix(node.type) \o " " \o toLowerCase(node.data.intent)),
                Undefined)

getMockAutogenResult(context) ==
    IF ~HasNode(context.project, context.nodeId)
    THEN AutogenResult(FALSE, context.field, JStr(""), "Node not found")
    ELSE
    LET node == findNode(context.project, context.nodeId)
        nodeName == node.data.name
        nodeType == node.type
        field == context.field
    IN CASE field = "intent" ->
              AutogenResult(TRUE, field,
                  JStr(intentPrefix(nodeType) \o " " \o stripNew(toLowerCase(nodeName))
                       \o " operations"),
                  Undefined)
         [] field = "behavior" ->
              AutogenResult(TRUE, field,
                  JStr("## Overview\nThis " \o nodeType \o " node handles "
                       \o toLowerCase(nodeName)
                       \o " operations.\n\n## Steps\n1. Receive input data\n2. Validate the input format\n3. Process according to business rules\n4. Return the result or appropriate error\n\n## Error Handling\n- Return descriptive error messages\n- Log errors for debugging"),
                  Undefined)
         [] field = "inputs" ->
              AutogenResult(TRUE, field,
                  JArr(mockPorts(node.data.inputs, "{ data: unknown }", "Input data for ",
                                 Port("input", "Primary input data", "{ data: unknown }"))),
                  Undefined)
         [] field = "outputs" ->
              AutogenResult(TRUE, field,
                  JArr(mockPorts(node.data.outputs, "{ result: unknown }", "Output data from ",
                                 Port("output", "Primary output data", "{ result: unknown }"))),
                  Undefined)
         [] field = "examples" ->
              AutogenResult(TRUE, field,
                  JArr(<<Example("{ \"data\": \"example input\" }",
                                 "{ \"result\": \"processed output\" }", "Happy path scenario"),
                         Example("{ \"data\": null }", "{ \"error\": \"Invalid input\" }",
                                 "Error handling example")>>),
                  Undefined)
         [] field = "constraints" ->
              AutogenResult(TRUE, field,
                  JArr(<<JStr("Must complete within reasonable time limits"),
                         JStr("Should handle invalid input gracefully"),
                         JStr("Must maintain data consistency")>>),
                  Undefined)
         [] OTHER ->
              AutogenResult(FALSE, field, JStr(""), "Unknown field: " \o field)

\* buildAutogenPrompt throws when the node is not in the project; the prompt
\* text itself is read by the external model only
buildAutogenPromptThrows(context) == ~HasNode(context.project, context.nodeId)

\* the try block of autogenField: the outcome and whether the call was issued
tryAutogen(context, response) ==
    IF buildAutogenPromptThrows(context) THEN [threw |-> TRUE, called |-> FALSE]
    ELSE LET parsed == parseResponse(response)
         IN IF parsed.threw \/ Nullish(parsed.value)
            THEN [threw |-> TRUE, called |-> TRUE]
            ELSE [threw |-> FALSE, called |-> TRUE,
                  value |-> AutogenResult(TRUE, context.field,
                                          GetProp(parsed.value, "value"), Undefined)]

\* the catch block rethrows
autogenField_Rethrow(context, key, response) ==
    IF ~key THEN Resolved(getMockAutogenResult(context), FALSE)
    ELSE LET r == tryAutogen(context, response)
         IN IF r.threw THEN Rejected(r.called)
            ELSE Resolved(r.value, r.called)

autogenField(context, key, response) ==
    IF ~key THEN Resolved(getMockAutogenResult(context), FALSE)
    ELSE LET r == tryAutogen(context, response)
         IN IF r.threw THEN Resolved(getMockAutogenResult(context), r.called)
            ELSE Resolved(r.value, r.called)

AutogenResponses == <<
    ApiError,
    Message(<<ToolUseBlock>>),
    Message(<<TextBlock(NotJSON)>>),
    Message(<<TextBlock(JSONText(JNull))>>),
    Message(<<TextBlock(JSONText(JObj([value |-> JStr("Validate the registration request body")])))>>),
    Message(<<TextBlock(JSONText(JObj([text |-> JStr("Validate the request")])))>>) >>

\* a nodeId that no node has
MissingNodeId == "deleted-node"

IssueMessages == {"\"New Process\" needs a clearer intent description."}

AutogenField ==
    /\ callsLeft > 0
    /\ \E nodeId \in NodeIds(project) \cup {MissingNodeId}, field \in AutogenFields,
          message \in IssueMessages, i \in 1..Len(AutogenResponses) :
          LET context == [project |-> project, nodeId |-> nodeId, field |-> field,
                          issueMessage |-> message]
              r == autogenField(context, apiKey, AutogenResponses[i])
          IN /\ autogen' = [status |-> r.status, value |-> r.value,
                            response |-> IF r.called THEN AutogenResponses[i] ELSE None]
             /\ autogenCtx' = context
             /\ extCalls' = extCalls + (IF r.called THEN 1 ELSE 0)
    /\ callsLeft' = callsLeft - 1
    /\ UNCHANGED <<project, nextId, opsLeft, apiKey, score, scored, prevScore,
                   analysis, analysed, uiVars, debounceVars, infer, exportedFile,
                   imported, projectId, selectedNodeId>>

----------------------------------------------------------------------------
(* api/specAnalysis: inferFieldFromIssue, inferFieldFromSuggestion *)

\* String.prototype.includes
includes(s, sub) ==
    \E i \in 0..(Len(s) - Len(sub)) : SubSeq(s, i + 1, i + Len(sub)) = sub

\* what every object literal inherits from Object.prototype
ObjectPrototypeMembers ==
    {"constructor", "toString", "toLocaleString", "valueOf", "hasOwnProperty",
     "isPrototypeOf", "propertyIsEnumerable"}

JFunction(name) == [t |-> "function", name |-> name]

\* fieldMap[k]: the own property, else the member inherited from
\* Object.prototype, else undefined
fieldMapGet(k) ==
    IF k \in AutogenFields THEN JStr(k)
    ELSE IF k \in ObjectPrototypeMembers THEN JFunction(k)
    ELSE JUndefined

\* the inputs rule does not look for 'output'
inferFieldFromIssue_InputWins(issue) ==
    LET message == toLowerCase(issue.message)
    IN IF issue.field # Undefined /\ Truthy(issue.field)
       THEN OrElse(fieldMapGet(issue.field), JNull)
       ELSE IF includes(message, "intent") \/ includes(message, "purpose")
       THEN JStr("intent")
       ELSE IF includes(message, "behavior") \/ includes(message, "description")
               \/ includes(message, "describe")
       THEN JStr("behavior")
       ELSE IF includes(message, "input") THEN JStr("inputs")
       ELSE IF includes(message, "output") THEN JStr("outputs")
       ELSE IF includes(message, "example") \/ includes(message, "edge case")
       THEN JStr("examples")
       ELSE IF includes(message, "constraint") \/ includes(message, "requirement")
               \/ includes(message, "limit")
       THEN JStr("constraints")
       ELSE IF issue.dimension = "completeness" THEN JStr("behavior")
       ELSE IF issue.dimension = "ambiguity" THEN JStr("intent")
       ELSE JNull

inferFieldFromIssue(issue) ==
    LET message == toLowerCase(issue.message)
    IN IF issue.field # Undefined /\ Truthy(issue.field)
       THEN OrElse(fieldMapGet(issue.field), JNull)
       ELSE IF includes(message, "intent") \/ includes(message, "purpose")
       THEN JStr("intent")
       ELSE IF includes(message, "behavior") \/ includes(message, "description")
               \/ includes(message, "describe")
       THEN JStr("behavior")
       ELSE IF includes(message, "input") /\ ~includes(message, "output")
       THEN JStr("inputs")
       ELSE IF includes(message, "output") /\ ~includes(message, "input")
       THEN JStr("outputs")
       ELSE IF includes(message, "example") \/ includes(message, "edge case")
       THEN JStr("examples")
       ELSE IF includes(message, "constraint") \/ includes(message, "requirement")
               \/ includes(message, "limit")
       THEN JStr("constraints")
       ELSE IF issue.dimension = "completeness" THEN JStr("behavior")
       ELSE IF issue.dimension = "ambiguity" THEN JStr("intent")
       ELSE JNull

\* the loop keeps the last node whose name occurs
RECURSIVE targetFrom_LastMatch(_, _, _, _)
targetFrom_LastMatch(suggestion, nodes, i, dflt) ==
    IF i > Len(nodes) THEN dflt
    ELSE targetFrom_LastMatch(suggestion, nodes, i + 1,
             IF includes(suggestion, nodes[i].data.name) THEN i ELSE dflt)

\* the for loop of inferFieldFromSuggestion over nodes[i..]: the index of the
\* target node, 0 for an undefined target
RECURSIVE targetFrom(_, _, _, _)
targetFrom(suggestion, nodes, i, dflt) ==
    IF i > Len(nodes) THEN dflt
    ELSE IF includes(suggestion, nodes[i].data.name) THEN i
    ELSE targetFrom(suggestion, nodes, i + 1, dflt)

Target(field, nodeId) == [t |-> "target", field |-> field, nodeId |-> nodeId]

\* within the type/shape rule 'output' is looked for before 'input'
inferFieldFromSuggestion_OutputFirst(suggestion, p) ==
    LET suggestionLower == toLowerCase(suggestion)
        target == targetFrom(suggestion, p.nodes, 1, IF Len(p.nodes) > 0 THEN 1 ELSE 0)
    IN IF target = 0 THEN JNull
       ELSE LET nodeId == p.nodes[target].id
            IN IF includes(suggestionLower, "behavior")
                  \/ includes(suggestionLower, "description")
                  \/ includes(suggestionLower, "error handling")
               THEN Target("behavior", nodeId)
               ELSE IF includes(suggestionLower, "example")
                       \/ includes(suggestionLower, "edge case")
               THEN Target("examples", nodeId)
               ELSE IF includes(suggestionLower, "type") \/ includes(suggestionLower, "shape")
               THEN (IF includes(suggestionLower, "output") THEN Target("outputs", nodeId)
                     ELSE Target("inputs", nodeId))
               ELSE IF includes(suggestionLower, "constraint")
                       \/ includes(suggestionLower, "requirement")
               THEN Target("constraints", nodeId)
               ELSE Target("behavior", nodeId)

inferFieldFromSuggestion(suggestion, p) ==
    LET suggestionLower == toLowerCase(suggestion)
        target == targetFrom(suggestion, p.nodes, 1, IF Len(p.nodes) > 0 THEN 1 ELSE 0)
    IN IF target = 0 THEN JNull
       ELSE LET nodeId == p.nodes[target].id
            IN IF includes(suggestionLower, "behavior")
                  \/ includes(suggestionLower, "description")
                  \/ includes(suggestionLower, "error handling")
               THEN Target("behavior", nodeId)
               ELSE IF includes(suggestionLower, "example")
                       \/ includes(suggestionLower, "edge case")
               THEN Target("examples", nodeId)
               ELSE IF includes(suggestionLower, "type") \/ includes(suggestionLower, "shape")
               THEN (IF includes(suggestionLower, "input") THEN Target("inputs", nodeId)
                     ELSE IF includes(suggestionLower, "output") THEN Target("outputs", nodeId)
                     ELSE Target("inputs", nodeId))
               ELSE IF includes(suggestionLower, "constraint")
                       \/ includes(suggestionLower, "requirement")
               THEN Target("constraints", nodeId)
               ELSE Target("behavior", nodeId)

\* SpecIssue.field values: absent, the six field kinds, and other names
IssueFields ==
    {Undefined} \cup AutogenFields \cup {"name", "systemContext", "constructor", "toString"}

InferMessages == {
    "\"New Process\" needs a clearer intent description.",
    "System context is incomplete. Fill in environment, infrastructure, and dependencies.",
    "Consider adding a Trigger node to define how the flow starts.",
    "The Purpose of this step is unclear.",
    "Input shape is unknown.",
    "Input and output shapes do not match.",
    "No edge case is covered.",
    "No rate limit is given.",
    "The graph has a cycle.",
    "Describe the error path.",
    "Output shape is unknown.",
    "Add an example for an empty input.",
    "Behavior contradicts the constraint.",
    "A requirement is missing." }

InferSuggestions == <<
    AllSuggestions[1], AllSuggestions[2], AllSuggestions[3], AllSuggestions[4],
    AllSuggestions[5],
    "Give Validate Input an output type.",
    "Connect New Process to New Output.",
    "State the constraints of New Integration.",
    "",
    "Declare the output shape.",
    "Add a type annotation.",
    "List every requirement and an edge case.",
    "Document the requirement." >>

InferFromIssue ==
    /\ \E field \in IssueFields, message \in InferMessages, dimension \in DimensionNames,
          severity \in {"warning"} :
          LET issue == Issue(severity, dimension, Undefined, field, message)
          IN infer' = [of |-> "issue", issue |-> issue,
                       result |-> inferFieldFromIssue(issue)]
    /\ UNCHANGED <<project, nextId, opsLeft, apiKey, score, scored, prevScore, analysis,
                   analysed, extCalls, autogen, autogenCtx, callsLeft, uiVars,
                   debounceVars, exportedFile,
                   imported, projectId, selectedNodeId>>

InferFromSuggestion ==
    /\ \E i \in 1..Len(InferSuggestions) :
          infer' = [of |-> "suggestion", suggestion |-> InferSuggestions[i],
                    project |-> project,
                    result |-> inferFieldFromSuggestion(InferSuggestions[i], project)]
    /\ UNCHANGED <<project, nextId, opsLeft, apiKey, score, scored, prevScore, analysis,
                   analysed, extCalls, autogen, autogenCtx, callsLeft, uiVars,
                   debounceVars, exportedFile,
                   imported, projectId, selectedNodeId>>

----------------------------------------------------------------------------
(* components/Panels/SpecOMeter *)

\* Without a credential analyzeSpec resolves without waiting for anything, so
\* its continuation runs before any timer, input event or network completion.
Quiet == apiKey \/ inflight = <<>>

Least(a, b) == IF a < b THEN a ELSE b

\* ms milliseconds pass
Tick(ms) ==
    /\ Quiet
    /\ sinceChange < DebounceMs \/ (debounceRef # None /\ debounceRef.age < DebounceMs)
    /\ sinceChange' = Least(sinceChange + ms, DebounceMs)
    /\ debounceRef' = IF debounceRef = None THEN None
                      ELSE [debounceRef EXCEPT !.age = Least(@ + ms, DebounceMs)]
    /\ UNCHANGED <<project, nextId, opsLeft, apiKey, score, scored, prevScore, analysis,
                   analysed, extCalls, autogen, autogenCtx, callsLeft, uiVars, settle,
                   infer, exportedFile,
                   imported, projectId, selectedNodeId>>

\* an analyzeSpec call awaited by SpecOMeter, with what held when it started
Call(by, p) ==
    [by |-> by, project |-> p, id |-> projectId,
     start |-> [known |-> projectHash(p) = lastAnalyzedRef,
                current |-> projectHash(p) = projectHash(project),
                pending |-> debounceRef # None,
                sinceChange |-> sinceChange,
                differed |-> settle.differed]]

\* the timer's callback, up to its await
timerCallback ==
    /\ Quiet
    /\ debounceRef # None
    /\ debounceRef.age >= DebounceMs
    /\ lastAnalyzedRef' = projectHash(debounceRef.project)
    /\ isAnalyzing' = TRUE
    /\ inflight' = Append(inflight, Call("auto", debounceRef.project))
    /\ debounceRef' = None
    /\ settle' = [settle EXCEPT !.autos = @ + 1]
    /\ UNCHANGED <<project, nextId, opsLeft, apiKey, score, scored, prevScore, analysis,
                   analysed, extCalls, autogen, autogenCtx, callsLeft, specScore,
                   lastCompleted, sinceChange, infer, exportedFile,
                   imported, projectId, selectedNodeId>>

\* a click on Refresh is ignored when the hash is the analysed one
handleManualAnalyze_SkipsAnalysed ==
    /\ Quiet
    /\ callsLeft > 0
    /\ ~isAnalyzing
    /\ projectHash(project) # lastAnalyzedRef
    /\ isAnalyzing' = TRUE
    /\ inflight' = Append(inflight, Call("manual", project))
    /\ callsLeft' = callsLeft - 1
    /\ UNCHANGED <<project, nextId, opsLeft, apiKey, score, scored, prevScore, analysis,
                   analysed, extCalls, autogen, autogenCtx, specScore, lastAnalyzedRef,
                   lastCompleted, debounceVars, infer, exportedFile,
                   imported, projectId, selectedNodeId>>

\* a click on the Refresh button, which is disabled while isAnalyzing is set:
\* handleManualAnalyze up to its await
handleManualAnalyze ==
    /\ Quiet
    /\ callsLeft > 0
    /\ ~isAnalyzing
    /\ isAnalyzing' = TRUE
    /\ inflight' = Append(inflight, Call("manual", project))
    /\ callsLeft' = callsLeft - 1
    /\ UNCHANGED <<project, nextId, opsLeft, apiKey, score, scored, prevScore, analysis,
                   analysed, extCalls, autogen, autogenCtx, specScore, lastAnalyzedRef,
                   lastCompleted, debounceVars, infer, exportedFile,
                   imported, projectId, selectedNodeId>>

Remove(seq, i) == SubSeq(seq, 1, i - 1) \o SubSeq(seq, i + 1, Len(seq))

\* what the external model answers to the calls of SpecOMeter
TriggerResponses == <<ApiError, Message(<<TextBlock(JSONText(GoodDocument))>>)>>

\* the awaited score is dropped instead of stored
resolveCall_DropsScore(i) ==
    /\ i \in 1..Len(inflight)
    /\ \E k \in 1..Len(TriggerResponses) :
       \E r \in {analyzeSpec(inflight[i].project, apiKey, TriggerResponses[k], 1)} :
          LET call == inflight[i]
          IN /\ lastCompleted' = [value |-> r.value, before |-> specScore,
                                  of |-> call.project, ofId |-> call.id,
                                  intoId |-> projectId]
             /\ extCalls' = extCalls + (IF r.called THEN 1 ELSE 0)
             /\ lastAnalyzedRef' = IF call.by = "manual" THEN projectHash(call.project)
                                   ELSE lastAnalyzedRef
    /\ isAnalyzing' = FALSE
    /\ inflight' = Remove(inflight, i)
    /\ UNCHANGED <<project, nextId, opsLeft, apiKey, score, scored, prevScore, analysis,
                   analysed, autogen, autogenCtx, callsLeft, specScore, debounceVars,
                   infer, exportedFile,
                   imported, projectId, selectedNodeId>>

\* the finally block does not clear the flag
resolveCall_LeavesFlag(i) ==
    /\ i \in 1..Len(inflight)
    /\ \E k \in 1..Len(TriggerResponses) :
       \E r \in {analyzeSpec(inflight[i].project, apiKey, TriggerResponses[k], 1)} :
          LET call == inflight[i]
          IN /\ specScore' = setSpecScore(specScore, r.value)
             /\ lastCompleted' = [value |-> r.value, before |-> specScore,
                                  of |-> call.project, ofId |-> call.id,
                                  intoId |-> projectId]
             /\ extCalls' = extCalls + (IF r.called THEN 1 ELSE 0)
             /\ lastAnalyzedRef' = IF call.by = "manual" THEN projectHash(call.project)
                                   ELSE lastAnalyzedRef
    /\ inflight' = Remove(inflight, i)
    /\ UNCHANGED <<project, nextId, opsLeft, apiKey, score, scored, prevScore, analysis,
                   analysed, autogen, autogenCtx, callsLeft, isAnalyzing, debounceVars,
                   infer, exportedFile, imported, projectId, selectedNodeId>>

\* the i-th awaited call resolves: the rest of the timer's callback or of
\* handleManualAnalyze
resolveCall(i) ==
    /\ i \in 1..Len(inflight)
    /\ \E k \in 1..Len(TriggerResponses) :
       \* Date.now() is 1: SpecOMeter reads no clock value
       \E r \in {analyzeSpec(inflight[i].project, apiKey, TriggerResponses[k], 1)} :
          LET call == inflight[i]
          IN /\ r.status = "resolved"
             /\ specScore' = setSpecScore(specScore, r.value)
             /\ lastCompleted' = [value |-> r.value, before |-> specScore,
                                  of |-> call.project, ofId |-> call.id,
                                  intoId |-> projectId]
             /\ extCalls' = extCalls + (IF r.called THEN 1 ELSE 0)
             /\ lastAnalyzedRef' = IF call.by = "manual" THEN projectHash(call.project)
                                   ELSE lastAnalyzedRef
    /\ isAnalyzing' = FALSE
    /\ inflight' = Remove(inflight, i)
    /\ UNCHANGED <<project, nextId, opsLeft, apiKey, score, scored, prevScore, analysis,
                   analysed, autogen, autogenCtx, callsLeft, debounceVars, infer, exportedFile,
                   imported, projectId, selectedNodeId>>

----------------------------------------------------------------------------
(* components/Header: JSON export and import *)

ContextKeys == {ContextFields[i] : i \in 1..Len(ContextFields)}

\* updateEdge: { ...edge.data, ...data }
MergeProps(a, b) ==
    [k \in (DOMAIN a) \cup (DOMAIN b) |-> IF k \in DOMAIN b THEN b[k] ELSE a[k]]

updateEdge(edgeId, data) ==
    /\ opsLeft > 0
    /\ project' = [project EXCEPT !.edges =
           [i \in 1..Len(@) |->
               IF @[i].id = edgeId
               THEN [@[i] EXCEPT !.data =
                        JObj(MergeProps(IF @.t = "object" THEN @.props ELSE <<>>, data))]
               ELSE @[i]]]
    /\ opsLeft' = opsLeft - 1
    /\ useEffectDebounce(project')
    /\ UNCHANGED <<nextId, selectedNodeId, callVars>>

\* Partial<VOPLEdgeData> values passed to updateEdge
EdgeDataSamples == <<[dataShape |-> JStr("User")], [label |-> JStr("on success")]>>

\* The store's project as the JavaScript object it is.
portToJS(port) ==
    JObj([name |-> JStr(port.name), description |-> JStr(port.description),
          shape |-> JStr(port.shape)])

exampleToJS(ex) ==
    JObj([input |-> JStr(ex.input), output |-> JStr(ex.output), notes |-> JStr(ex.notes)])

nodeToJS(node) ==
    JObj([id |-> JStr(node.id),
          type |-> JStr(node.type),
          data |-> JObj([name |-> JStr(node.data.name),
                         intent |-> JStr(node.data.intent),
                         inputs |-> JArr([i \in 1..Len(node.data.inputs) |->
                                             portToJS(node.data.inputs[i])]),
                         outputs |-> JArr([i \in 1..Len(node.data.outputs) |->
                                              portToJS(node.data.outputs[i])]),
                         behavior |-> JStr(node.data.behavior),
                         examples |-> JArr([i \in 1..Len(node.data.examples) |->
                                               exampleToJS(node.data.examples[i])]),
                         constraints |-> JStrings(node.data.constraints)])])

edgeToJS(edge) ==
    JObj([id |-> JStr(edge.id),
          source |-> JStr(edge.source),
          target |-> JStr(edge.target),
          sourceHandle |-> JOptional(edge.sourceHandle),
          targetHandle |-> JOptional(edge.targetHandle),
          data |-> edge.data])

\* project.specScore is carried as one value
JScore(sc) == IF sc = None THEN JUndefined ELSE [t |-> "score", value |-> sc]

projectToJS(p, sc, id) ==
    JObj([id |-> JStr(id),
          systemContext |-> JObj([f \in ContextKeys |-> JStr(p.systemContext[f])]),
          nodes |-> JArr([i \in 1..Len(p.nodes) |-> nodeToJS(p.nodes[i])]),
          edges |-> JArr([i \in 1..Len(p.edges) |-> edgeToJS(p.edges[i])]),
          specScore |-> JScore(sc)])

\* the serialisation also leaves out members that hold an empty string
RECURSIVE serialize_DropsEmpty(_)
serialize_DropsEmpty(v) ==
    IF v.t = "object"
    THEN JObj([k \in {m \in DOMAIN v.props : ~Falsy(v.props[m])} |->
                  serialize_DropsEmpty(v.props[k])])
    ELSE IF v.t = "array"
    THEN JArr([i \in 1..Len(v.items) |->
                  IF v.items[i].t = "undefined" THEN JNull
                  ELSE serialize_DropsEmpty(v.items[i])])
    ELSE v

\* The document JSON.stringify writes for a value: members of objects that hold
\* undefined are left out, undefined elements of arrays become null.
RECURSIVE serialize(_)
serialize(v) ==
    IF v.t = "object"
    THEN JObj([k \in {m \in DOMAIN v.props : v.props[m].t # "undefined"} |->
                  serialize(v.props[k])])
    ELSE IF v.t = "array"
    THEN JArr([i \in 1..Len(v.items) |->
                  IF v.items[i].t = "undefined" THEN JNull ELSE serialize(v.items[i])])
    ELSE v

JSONstringify(v) == JSONText(serialize(v))

\* The loaded object as the store's project: every member is what a property
\* read of the object gives, undefined for a member the object lacks.
stringOf(v) == IF v.t = "string" THEN v.s ELSE Undefined
itemsOf(v) == IF v.t = "array" THEN v.items ELSE <<>>

portFromJS(v) ==
    [name |-> stringOf(GetProp(v, "name")),
     description |-> stringOf(GetProp(v, "description")),
     shape |-> stringOf(GetProp(v, "shape"))]

exampleFromJS(v) ==
    [input |-> stringOf(GetProp(v, "input")),
     output |-> stringOf(GetProp(v, "output")),
     notes |-> stringOf(GetProp(v, "notes"))]

nodeFromJS(v) ==
    LET data == GetProp(v, "data")
        list(k) == itemsOf(GetProp(data, k))
    IN [id |-> stringOf(GetProp(v, "id")),
        type |-> stringOf(GetProp(v, "type")),
        data |-> [name |-> stringOf(GetProp(data, "name")),
                  intent |-> stringOf(GetProp(data, "intent")),
                  inputs |-> [i \in 1..Len(list("inputs")) |-> portFromJS(list("inputs")[i])],
                  outputs |-> [i \in 1..Len(list("outputs")) |-> portFromJS(list("outputs")[i])],
                  behavior |-> stringOf(GetProp(data, "behavior")),
                  examples |-> [i \in 1..Len(list("examples")) |->
                                   exampleFromJS(list("examples")[i])],
                  constraints |-> [i \in 1..Len(list("constraints")) |->
                                      stringOf(list("constraints")[i])]]]

edgeFromJS(v) ==
    [id |-> stringOf(GetProp(v, "id")),
     source |-> stringOf(GetProp(v, "source")),
     target |-> stringOf(GetProp(v, "target")),
     sourceHandle |-> stringOf(GetProp(v, "sourceHandle")),
     targetHandle |-> stringOf(GetProp(v, "targetHandle")),
     data |-> GetProp(v, "data")]

projectFromJS(v) ==
    LET nodes == itemsOf(GetProp(v, "nodes"))
        edges == itemsOf(GetProp(v, "edges"))
    IN [systemContext |-> [f \in ContextKeys |->
                              stringOf(GetProp(GetProp(v, "systemContext"), f))],
        nodes |-> [i \in 1..Len(nodes) |-> nodeFromJS(nodes[i])],
        edges |-> [i \in 1..Len(edges) |-> edgeFromJS(edges[i])]]

scoreFromJS(v) ==
    LET sc == GetProp(v, "specScore")
    IN IF sc.t = "score" THEN sc.value ELSE None

\* handleExportJSON: the downloaded file, with the project it was written from
handleExportJSON ==
    /\ exportedFile' = [text |-> JSONstringify(projectToJS(project, specScore, projectId)),
                        from |-> project]
    /\ UNCHANGED <<project, nextId, opsLeft, apiKey, score, scored, prevScore, analysis,
                   analysed, extCalls, autogen, autogenCtx, callsLeft, uiVars,
                   debounceVars, infer, imported, projectId,
                   selectedNodeId>>

\* getMockScore on the loaded object throws a TypeError: Object.values of an
\* undefined systemContext, .length of undefined nodes or edges, or any member
\* of null
getMockScoreThrows(v) ==
    \/ Nullish(v)
    \/ Nullish(GetProp(v, "systemContext"))
    \/ Nullish(GetProp(v, "nodes"))
    \/ Nullish(GetProp(v, "edges"))

\* loadProject: the store's project is the given object, whatever it is
loadProject(v) ==
    /\ project' = projectFromJS(v)
    /\ projectId' = stringOf(GetProp(v, "id"))
    /\ specScore' = scoreFromJS(v)
    /\ selectedNodeId' = Null
    /\ useEffectDebounce(project')

\* handleImport on a file with the given text; from is the project the file was
\* exported from, None for a file from elsewhere
importFile(text, from) ==
    /\ opsLeft > 0
    /\ LET parsed == JSONparse(text)
       IN IF parsed.threw
          THEN /\ imported' = [from |-> from, before |-> project, loaded |-> project,
                               text |-> text, alert |-> TRUE, usable |-> TRUE]
               /\ UNCHANGED <<project, projectId, specScore, selectedNodeId, opsLeft,
                              debounceVars>>
          ELSE /\ loadProject(parsed.value)
               /\ opsLeft' = opsLeft - 1
               /\ imported' = [from |-> from, before |-> project, loaded |-> project',
                               text |-> text, alert |-> FALSE,
                               usable |-> ~getMockScoreThrows(parsed.value)]
    /\ UNCHANGED <<nextId, apiKey, score, scored, prevScore, analysis,
                   analysed, extCalls, autogen, autogenCtx, callsLeft, isAnalyzing,
                   lastAnalyzedRef, inflight, lastCompleted, infer, exportedFile>>

\* handleImport on the exported file
handleImport ==
    /\ exportedFile # None
    /\ importFile(exportedFile.text, exportedFile.from)

\* the file of an empty project written by another installation
ForeignProject ==
    JSONText(JObj([id |-> JStr("p2"), nodes |-> JArr(<<>>), edges |-> JArr(<<>>),
                   systemContext |-> JObj([f \in ContextKeys |-> JStr("")])]))

\* files that were not written by the export
ForeignFiles == <<
    NotJSON,
    JSONText(JNull),
    JSONText(JNum(42)),
    JSONText(JArr(<<>>)),
    JSONText(JObj([name |-> JStr("Checkout flow")])),
    JSONText(JObj([id |-> JStr("p1"), nodes |-> JArr(<<>>)])),
    ForeignProject >>

\* handleImport on a file from elsewhere
handleImportForeign ==
    \E i \in 1..Len(ForeignFiles) : importFile(ForeignFiles[i], None)

\* the store holds an object on which every analyzeSpec call rejects: without
\* a key getMockScore throws in the async function, with a key
\* buildAnalysisPrompt throws inside the try block and getMockScore in the catch
analyzeSpecRejects == imported # None /\ ~imported.usable

----------------------------------------------------------------------------
(* The scorer applied to the store's project *)

Score ==
    /\ \E now \in 1..MaxClock :
          /\ score' = getMockScore(project, now)
          /\ prevScore' = IF scored = project THEN score ELSE None
    /\ scored' = project
    /\ UNCHANGED <<project, nextId, opsLeft, apiKey, analysis, analysed,
                   extCalls, autogen, autogenCtx, callsLeft, uiVars, debounceVars,
                   infer, exportedFile,
                   imported, projectId, selectedNodeId>>

\* The application after its first render: nothing analysed, nothing awaited,
\* and the effect of SpecOMeter has set its first timer on the empty project
\* (whose hash is not the empty string).
Mounted ==
    /\ specScore = None
    /\ isAnalyzing = FALSE
    /\ lastAnalyzedRef = EmptyHash
    /\ debounceRef = [project |-> createEmptyProject, age |-> 0]
    /\ sinceChange = 0
    /\ settle = [differed |-> TRUE, autos |-> 0]
    /\ inflight = <<>>
    /\ lastCompleted = None
    /\ infer = None
    /\ exportedFile = None
    /\ imported = None
    /\ projectId = randomUUID(0)
    /\ selectedNodeId = Null

Init ==
    /\ project = createEmptyProject
    /\ nextId = 1
    /\ opsLeft = MaxOps
    /\ apiKey = FALSE
    /\ score = None
    /\ scored = None
    /\ prevScore = None
    /\ analysis = None
    /\ analysed = None
    /\ extCalls = 0
    /\ autogen = None
    /\ autogenCtx = None
    /\ callsLeft = 0
    /\ Mounted

Next ==
    \/ \E type \in NodeTypes : addNode(type)
    \/ \E nodeId \in NodeIds(project), i \in 1..Len(PatchSamples) :
          updateNode(nodeId, PatchSamples[i])
    \/ \E i \in 1..Len(ContextSamples) : setSystemContext(ContextSamples[i])
    \/ \E s \in NodeIds(project), t \in NodeIds(project) : addEdge(Connection(s, t, "", ""))
    \/ Score

Spec == Init /\ [][Next]_vars

----------------------------------------------------------------------------
(* Projects of many nodes: only default process nodes and few edges *)

InitWide ==
    /\ project = createEmptyProject
    /\ nextId = 1
    /\ opsLeft = MaxWide + MaxWideEdges
    /\ apiKey = FALSE
    /\ score = None
    /\ scored = None
    /\ prevScore = None
    /\ analysis = None
    /\ analysed = None
    /\ extCalls = 0
    /\ autogen = None
    /\ autogenCtx = None
    /\ callsLeft = 0
    /\ Mounted

NextWide ==
    \/ (Len(project.nodes) < MaxWide /\ addNode("process"))
    \/ \E s \in NodeIds(project), t \in NodeIds(project) :
          Len(project.edges) < MaxWideEdges /\ addEdge(Connection(s, t, "", ""))
    \/ Score

SpecWide == InitWide /\ [][NextWide]_vars

----------------------------------------------------------------------------
(* analyzeSpec applied to the store's project, with and without a credential *)

InitAnalyze ==
    /\ project = createEmptyProject
    /\ nextId = 1
    /\ opsLeft = MaxOpsAnalyze
    /\ apiKey \in BOOLEAN
    /\ score = None
    /\ scored = None
    /\ prevScore = None
    /\ analysis = None
    /\ analysed = None
    /\ extCalls = 0
    /\ autogen = None
    /\ autogenCtx = None
    /\ callsLeft = MaxCalls
    /\ Mounted

NextAnalyze ==
    \/ \E type \in NodeTypes : addNode(type)
    \/ \E nodeId \in NodeIds(project), i \in 1..Len(PatchSamples) :
          updateNode(nodeId, PatchSamples[i])
    \/ \E i \in 1..Len(ContextSamples) : setSystemContext(ContextSamples[i])
    \/ \E s \in NodeIds(project), t \in NodeIds(project) : addEdge(Connection(s, t, "", ""))
    \/ AnalyzeSpec

SpecAnalyze == InitAnalyze /\ [][NextAnalyze]_vars

----------------------------------------------------------------------------
(* analyzeSpec and autogenField with no credential configured *)

InitNoKey ==
    /\ project = createEmptyProject
    /\ nextId = 1
    /\ opsLeft = MaxOpsAnalyze
    /\ apiKey = FALSE
    /\ score = None
    /\ scored = None
    /\ prevScore = None
    /\ analysis = None
    /\ analysed = None
    /\ extCalls = 0
    /\ autogen = None
    /\ autogenCtx = None
    /\ callsLeft = MaxCalls
    /\ Mounted

NextNoKey ==
    \/ \E type \in NodeTypes : addNode(type)
    \/ \E nodeId \in NodeIds(project), i \in 1..Len(PatchSamples) :
          updateNode(nodeId, PatchSamples[i])
    \/ \E s \in NodeIds(project), t \in NodeIds(project) : addEdge(Connection(s, t, "", ""))
    \/ AnalyzeSpec
    \/ AutogenField

SpecNoKey == InitNoKey /\ [][NextNoKey]_vars

----------------------------------------------------------------------------
(* The field inference helpers applied to issues and to the store's project *)

InitInfer ==
    /\ project = createEmptyProject
    /\ nextId = 1
    /\ opsLeft = MaxOpsAnalyze
    /\ apiKey = FALSE
    /\ score = None
    /\ scored = None
    /\ prevScore = None
    /\ analysis = None
    /\ analysed = None
    /\ extCalls = 0
    /\ autogen = None
    /\ autogenCtx = None
    /\ callsLeft = 0
    /\ Mounted

NextInfer ==
    \/ \E type \in NodeTypes : addNode(type)
    \/ \E nodeId \in NodeIds(project), i \in 1..Len(PatchSamples) :
          updateNode(nodeId, PatchSamples[i])
    \/ InferFromSuggestion

SpecInfer == InitInfer /\ [][NextInfer]_vars

\* inferFieldFromIssue reads the issue alone
NextInferIssue == InferFromIssue

SpecInferIssue == InitInfer /\ [][NextInferIssue]_vars

----------------------------------------------------------------------------
(* autogenField applied to the store's project, with and without a credential *)

InitAutogen ==
    /\ project = createEmptyProject
    /\ nextId = 1
    /\ opsLeft = MaxOpsAnalyze
    /\ apiKey \in BOOLEAN
    /\ score = None
    /\ scored = None
    /\ prevScore = None
    /\ analysis = None
    /\ analysed = None
    /\ extCalls = 0
    /\ autogen = None
    /\ autogenCtx = None
    /\ callsLeft = MaxCalls
    /\ Mounted

NextAutogen ==
    \/ \E type \in NodeTypes : addNode(type)
    \/ \E nodeId \in NodeIds(project), i \in 1..Len(PatchSamples) :
          updateNode(nodeId, PatchSamples[i])
    \/ AutogenField

SpecAutogen == InitAutogen /\ [][NextAutogen]_vars

----------------------------------------------------------------------------
(* SpecOMeter over the store: edits, time, the debounce timer, the Refresh button *)

\* the patches of PatchSamples used: a new name, and examples that a default
\* node already has
TriggerPatches == {1, 10}

InitTrigger ==
    /\ project = createEmptyProject
    /\ nextId = 1
    /\ opsLeft = MaxOpsAnalyze
    /\ apiKey \in BOOLEAN
    /\ score = None
    /\ scored = None
    /\ prevScore = None
    /\ analysis = None
    /\ analysed = None
    /\ extCalls = 0
    /\ autogen = None
    /\ autogenCtx = None
    /\ callsLeft = MaxCalls
    /\ Mounted

NextTrigger ==
    \/ (Quiet /\ addNode("process"))
    \/ \E nodeId \in NodeIds(project), i \in TriggerPatches :
          Quiet /\ updateNode(nodeId, PatchSamples[i])
    \/ (Quiet /\ onNodesChange)
    \/ \E ms \in {DebounceMs \div 2, DebounceMs} : Tick(ms)
    \/ timerCallback
    \/ handleManualAnalyze
    \/ \E i \in 1..Len(inflight) : resolveCall(i)

SpecTrigger == InitTrigger /\ [][NextTrigger]_vars

----------------------------------------------------------------------------
(* SpecOMeter under progress: nodes are added and moved, Refresh is clicked *)

InitSettle ==
    /\ project = createEmptyProject
    /\ nextId = 1
    /\ opsLeft = MaxOpsAnalyze
    /\ apiKey \in BOOLEAN
    /\ score = None
    /\ scored = None
    /\ prevScore = None
    /\ analysis = None
    /\ analysed = None
    /\ extCalls = 0
    /\ autogen = None
    /\ autogenCtx = None
    /\ callsLeft = MaxRefresh
    /\ Mounted

NextSettle ==
    \/ (Quiet /\ addNode("process"))
    \/ (Quiet /\ onNodesChange)
    \/ Tick(DebounceMs)
    \/ timerCallback
    \/ handleManualAnalyze
    \/ \E i \in 1..Len(inflight) : resolveCall(i)

\* Time passes, a timer that is due fires, and an awaited analyzeSpec call
\* settles (the SDK call resolves or fails).
Progress ==
    /\ WF_vars(Tick(DebounceMs))
    /\ WF_vars(timerCallback)
    /\ WF_vars(\E i \in 1..Len(inflight) : resolveCall(i))

SpecSettle == InitSettle /\ [][NextSettle]_vars /\ Progress

----------------------------------------------------------------------------
(* Editing the graph: nodes and edges are added and deleted, nodes selected *)

InitGraph ==
    /\ project = createEmptyProject
    /\ nextId = 1
    /\ opsLeft = MaxOpsGraph
    /\ apiKey = FALSE
    /\ score = None
    /\ scored = None
    /\ prevScore = None
    /\ analysis = None
    /\ analysed = None
    /\ extCalls = 0
    /\ autogen = None
    /\ autogenCtx = None
    /\ callsLeft = 0
    /\ Mounted

NextGraph ==
    \/ \E type \in {"trigger", "output"} : addNode(type)
    \/ \E nodeId \in NodeIds(project) : updateNode(nodeId, PatchSamples[1])
    \/ \E s \in NodeIds(project), t \in NodeIds(project) : addEdge(Connection(s, t, "", ""))
    \/ \E i \in 1..Len(project.edges) : deleteEdge(project.edges[i].id)
    \/ \E nodeId \in NodeIds(project) : deleteNode(nodeId)
    \/ \E nodeId \in NodeIds(project) \cup {Null} : selectNode(nodeId)

SpecGraph == InitGraph /\ [][NextGraph]_vars

----------------------------------------------------------------------------
(* SpecOMeter while the store's project is replaced *)

NextReplace ==
    \/ (Quiet /\ addNode("process"))
    \/ (Quiet /\ resetProject)
    \/ (Quiet /\ importFile(ForeignProject, None))
    \/ \E ms \in {DebounceMs} : Tick(ms)
    \/ timerCallback
    \/ handleManualAnalyze
    \/ \E i \in 1..Len(inflight) : resolveCall(i)

SpecReplace == InitTrigger /\ [][NextReplace]_vars

----------------------------------------------------------------------------
(* JSON export and import over the store *)

\* the patches of PatchSamples used: a name, an empty name, ports, examples
RoundTripPatches == {1, 2, 7, 9}

\* the handles a connection from s to t may name: none, or the first port
Handles(ports) == {""} \cup {ports[i].name : i \in {j \in 1..Len(ports) : j = 1}}

NodeOf(p, id) == p.nodes[CHOOSE i \in 1..Len(p.nodes) : p.nodes[i].id = id]

InitRoundTrip ==
    /\ project = createEmptyProject
    /\ nextId = 1
    /\ opsLeft = MaxOpsRoundTrip
    /\ apiKey = FALSE
    /\ score = None
    /\ scored = None
    /\ prevScore = None
    /\ analysis = None
    /\ analysed = None
    /\ extCalls = 0
    /\ autogen = None
    /\ autogenCtx = None
    /\ callsLeft = 0
    /\ Mounted

NextRoundTrip ==
    \/ \E type \in {"trigger", "process"} : addNode(type)
    \/ \E nodeId \in NodeIds(project), i \in RoundTripPatches :
          updateNode(nodeId, PatchSamples[i])
    \/ setSystemContext(ContextSamples[1])
    \/ \E s \in NodeIds(project), t \in NodeIds(project) :
          \E sh \in Handles(NodeOf(project, s).data.outputs),
             th \in Handles(NodeOf(project, t).data.inputs) :
             addEdge(Connection(s, t, sh, th))
    \/ \E i \in 1..Len(project.edges), k \in 1..Len(EdgeDataSamples) :
          updateEdge(project.edges[i].id, EdgeDataSamples[k])
    \/ handleExportJSON
    \/ handleImport

SpecRoundTrip == InitRoundTrip /\ [][NextRoundTrip]_vars

----------------------------------------------------------------------------
(* Import of files over the store.  Once the store holds an object on which
   getMockScore throws, nothing more is taken from the run. *)

InitImport ==
    /\ project = createEmptyProject
    /\ nextId = 1
    /\ opsLeft = MaxOpsAnalyze
    /\ apiKey = FALSE
    /\ score = None
    /\ scored = None
    /\ prevScore = None
    /\ analysis = None
    /\ analysed = None
    /\ extCalls = 0
    /\ autogen = None
    /\ autogenCtx = None
    /\ callsLeft = 0
    /\ Mounted

NextImport ==
    \/ \E type \in {"trigger", "process"} : ~analyzeSpecRejects /\ addNode(type)
    \/ (~analyzeSpecRejects /\ handleExportJSON)
    \/ (~analyzeSpecRejects /\ handleImport)
    \/ (~analyzeSpecRejects /\ handleImportForeign)
    \/ (~analyzeSpecRejects /\ Score)

SpecImport == InitImport /\ [][NextImport]_vars

----------------------------------------------------------------------------
(* Properties of the heuristic scorer *)

InRange(x) == x >= 0 /\ x <= 100

Count(s, P(_)) == Cardinality({i \in 1..Len(s) : P(s[i])})

\* C1: every score returned by getMockScore (overall and the four dimension
\* scores) lies in [0,100], for every graph.
C1_ScoresInRange ==
    score # None =>
        /\ InRange(score.overall)
        /\ InRange(score.completeness.score)
        /\ InRange(score.ambiguity.score)
        /\ InRange(score.consistency.score)
        /\ InRange(score.groundedness.score)

\* C5: for a graph with zero nodes, whatever the system context, the scorer
\* returns completeness 10, ambiguity 50, consistency 80, groundedness 60 and
\* overall 45, exactly one error issue, no consistency issue and no info issue.
C5_EmptyGraph ==
    (score # None /\ Len(scored.nodes) = 0) =>
        /\ score.completeness.score = 10
        /\ score.ambiguity.score = 50
        /\ score.consistency.score = 80
        /\ score.groundedness.score = 60
        /\ score.overall = 45
        /\ Count(score.issues, LAMBDA i : i.severity = "error") = 1
        /\ Count(score.issues, LAMBDA i : i.dimension = "consistency") = 0
        /\ Count(score.issues, LAMBDA i : i.severity = "info") = 0

C5_Witness ==
    /\ score # None
    /\ Len(scored.nodes) = 0
    /\ \A f \in DOMAIN scored.systemContext : Len(scored.systemContext[f]) > 10

\* the weighted sum of four scores, times 100
Weighted(c, a, k, g) == 35 * c + 25 * a + 25 * k + 15 * g

\* C6 as stated: overall is the rounded weighted sum of the four dimension
\* scores reported in the same SpecScore.
C6_OverallFromReported ==
    score # None =>
        score.overall =
            RoundDiv(Weighted(score.completeness.score, score.ambiguity.score,
                              score.consistency.score, score.groundedness.score), 100)

\* x is Math.round(n / d), stated without RoundDiv
IsRounded(x, n, d) == 2 * d * x - d <= 2 * n /\ 2 * n < 2 * d * x + d

\* the unrounded completeness of a project with nodes, as a fraction
\* UnroundedNum / UnroundedDen: 20 * filled / 6 + 80 * (sum of node scores) / (100 * N)
UnroundedDen(p) == 6 * 100 * Len(p.nodes)
UnroundedNum(p, filled, sum) == 20 * filled * 100 * Len(p.nodes) + 80 * sum * 6

Abs(x) == IF x < 0 THEN -x ELSE x

\* C6 (amended): overall is the rounded weighted sum of the unrounded
\* completeness (whose rounding is the reported completeness score) and the
\* reported ambiguity, consistency and groundedness scores; it is within 1 of
\* the weighted sum of the four reported scores.
C6_OverallFromUnrounded ==
    score # None =>
        LET den == IF Len(scored.nodes) = 0 THEN 1 ELSE UnroundedDen(scored)
            num == IF Len(scored.nodes) = 0 THEN 10
                   ELSE UnroundedNum(scored, filledContext(scored),
                            SumSeq([i \in 1..Len(scored.nodes) |-> nodeScore(scored.nodes[i])]))
            rest == Weighted(0, score.ambiguity.score, score.consistency.score,
                             score.groundedness.score)
        IN /\ IsRounded(score.completeness.score, num, den)
           /\ IsRounded(score.overall, 35 * num + rest * den, 100 * den)
           /\ Abs(score.overall
                  - RoundDiv(Weighted(score.completeness.score, score.ambiguity.score,
                                      score.consistency.score, score.groundedness.score), 100)) <= 1

C6_Witness ==
    /\ score # None
    /\ Len(scored.nodes) > 0
    /\ score.overall #
           RoundDiv(Weighted(score.completeness.score, score.ambiguity.score,
                             score.consistency.score, score.groundedness.score), 100)

\* the per-node score as C7 states it
HasDefinedPort(ports) ==
    \E i \in 1..Len(ports) : ports[i].shape # "" /\ ports[i].shape # "unknown"

StatedNodeScore(node, nameCredit) ==
      (IF nameCredit THEN 10 ELSE 0)
    + (IF Len(node.data.intent) > 20 THEN 20 ELSE 0)
    + (IF Len(node.data.behavior) > 50 THEN 30 ELSE 0)
    + (IF HasDefinedPort(node.data.inputs) THEN 15 ELSE 0)
    + (IF HasDefinedPort(node.data.outputs) THEN 15 ELSE 0)
    + (IF Len(node.data.examples) >= 1 THEN 10 ELSE 0)

FilledStated(p) ==
    Cardinality({i \in 1..6 : Len(p.systemContext[ContextFields[i]]) > 10})

\* the node with the shape of its first input port replaced
WithInputShape(node, shape) == [node EXCEPT !.data.inputs[1].shape = shape]

OnlyInputUnknown(node) ==
    Len(node.data.inputs) = 1 /\ node.data.inputs[1].shape = "unknown"

PortClauses(p) ==
    \A i \in 1..Len(p.nodes) :
        OnlyInputUnknown(p.nodes[i]) =>
            \A shape \in {"string", "{ email: string }"} :
                nodeScore(WithInputShape(p.nodes[i], shape)) = nodeScore(p.nodes[i]) + 15

\* C7 as stated: for N >= 1 nodes completeness is round(filled/6*20 +
\* sum/(N*100)*80), a node earning 10 whenever its name does not start with
\* 'New ', 20 for an intent longer than 20, 30 for a behavior longer than 50,
\* 15 per port kind with a defined shape, 10 for an example; a sole 'unknown'
\* input shape made defined raises the node's score by exactly 15.
C7_CompletenessAsStated ==
    (score # None /\ Len(scored.nodes) >= 1) =>
        /\ \A i \in 1..Len(scored.nodes) :
              nodeScore(scored.nodes[i]) =
                  StatedNodeScore(scored.nodes[i],
                                  ~StartsWith(scored.nodes[i].data.name, "New "))
        /\ IsRounded(score.completeness.score,
                     UnroundedNum(scored, FilledStated(scored),
                         SumSeq([i \in 1..Len(scored.nodes) |->
                             StatedNodeScore(scored.nodes[i],
                                 ~StartsWith(scored.nodes[i].data.name, "New "))])),
                     UnroundedDen(scored))
        /\ PortClauses(scored)

\* C7 (amended): as stated, except that the 10 points for the name are earned
\* only by a non-empty name that does not start with 'New '.
C7_Completeness ==
    (score # None /\ Len(scored.nodes) >= 1) =>
        /\ \A i \in 1..Len(scored.nodes) :
              nodeScore(scored.nodes[i]) =
                  StatedNodeScore(scored.nodes[i],
                                  scored.nodes[i].data.name # ""
                                  /\ ~StartsWith(scored.nodes[i].data.name, "New "))
        /\ IsRounded(score.completeness.score,
                     UnroundedNum(scored, FilledStated(scored),
                         SumSeq([i \in 1..Len(scored.nodes) |->
                             StatedNodeScore(scored.nodes[i],
                                 scored.nodes[i].data.name # ""
                                 /\ ~StartsWith(scored.nodes[i].data.name, "New "))])),
                     UnroundedDen(scored))
        /\ PortClauses(scored)

C7_Witness ==
    /\ score # None
    /\ Len(scored.nodes) = 2
    /\ scored.nodes[1].data.name = ""
    /\ OnlyInputUnknown(scored.nodes[2])
    /\ score.completeness.score > 0

\* the graph of C8: one node named 'New Trigger' with empty intent, empty
\* behavior, no examples and no port with a defined shape
PlaceholderGraph(p) ==
    /\ Len(p.nodes) = 1
    /\ p.nodes[1].data.name = "New Trigger"
    /\ p.nodes[1].data.intent = ""
    /\ p.nodes[1].data.behavior = ""
    /\ p.nodes[1].data.examples = <<>>
    /\ ~HasDefinedPort(p.nodes[1].data.inputs)
    /\ ~HasDefinedPort(p.nodes[1].data.outputs)

HasIntentIssue(s, nodeId) ==
    \E i \in 1..Len(s.issues) :
        /\ s.issues[i].dimension = "ambiguity"
        /\ s.issues[i].field = "intent"
        /\ s.issues[i].nodeId = nodeId

\* C8 as stated: for the placeholder graph and every system context the node
\* contributes 0, completeness is strictly below 20 and an ambiguity issue on
\* the node's intent is present.
C8_PlaceholderBelow20 ==
    (score # None /\ PlaceholderGraph(scored)) =>
        /\ nodeScore(scored.nodes[1]) = 0
        /\ score.completeness.score < 20
        /\ HasIntentIssue(score, scored.nodes[1].id)

\* C8 (amended): for the placeholder graph the node contributes 0, completeness
\* is round(20 * filled / 6), which is at most 20 and strictly below 20 unless
\* all six system-context fields are filled, and an ambiguity issue on the
\* node's intent is present.
C8_PlaceholderAtMost20 ==
    (score # None /\ PlaceholderGraph(scored)) =>
        /\ nodeScore(scored.nodes[1]) = 0
        /\ IsRounded(score.completeness.score, 20 * FilledStated(scored), 6)
        /\ score.completeness.score <= 20
        /\ (FilledStated(scored) < 6 => score.completeness.score < 20)
        /\ HasIntentIssue(score, scored.nodes[1].id)

C8_Witness ==
    /\ score # None
    /\ PlaceholderGraph(scored)
    /\ FilledStated(scored) = 6
    /\ score.completeness.score = 20

\* the nodes of p that are neither source nor target of any edge
Isolated(p) ==
    {i \in 1..Len(p.nodes) :
        \A e \in 1..Len(p.edges) :
            p.edges[e].source # p.nodes[i].id /\ p.edges[e].target # p.nodes[i].id}

\* C9: consistency is 80 - 10k, k the number of nodes touched by no edge when
\* the graph has an edge and 0 when it has none; each such node gets exactly
\* one consistency issue, a warning, and no other node gets one.
C9_Consistency ==
    score # None =>
        LET penalised == IF Len(scored.edges) >= 1 THEN Isolated(scored) ELSE {}
        IN /\ score.consistency.score = 80 - 10 * Cardinality(penalised)
           /\ \A i \in 1..Len(scored.nodes) :
                 Count(score.issues,
                       LAMBDA x : x.dimension = "consistency" /\ x.nodeId = scored.nodes[i].id)
                     = (IF i \in penalised THEN 1 ELSE 0)
           /\ Count(score.issues, LAMBDA x : x.dimension = "consistency")
                 = Cardinality(penalised)
           /\ \A j \in 1..Len(score.issues) :
                 score.issues[j].dimension = "consistency" =>
                     score.issues[j].severity = "warning"

C9_Witness ==
    /\ score # None
    /\ Len(scored.edges) = 1
    /\ Len(scored.nodes) = 2
    /\ Cardinality(Isolated(scored)) = 1
    /\ score.consistency.score = 70

\* C10: two calls of getMockScore on the same unchanged graph agree in
\* overall, the four dimension scores and details, the issues (in order) and
\* the suggestions; only lastUpdated may differ.
C10_Deterministic ==
    prevScore # None =>
        /\ prevScore.overall = score.overall
        /\ prevScore.completeness = score.completeness
        /\ prevScore.ambiguity = score.ambiguity
        /\ prevScore.consistency = score.consistency
        /\ prevScore.groundedness = score.groundedness
        /\ prevScore.issues = score.issues
        /\ prevScore.suggestions = score.suggestions

C10_Witness ==
    /\ prevScore # None
    /\ prevScore.lastUpdated # score.lastUpdated
    /\ Len(scored.nodes) >= 1
    /\ Len(score.issues) >= 2

----------------------------------------------------------------------------
(* Properties of analyzeSpec and autogenField *)

CallThrew(r) == r.kind = "error"
FirstBlockNotText(r) ==
    r.kind = "message" /\ (Len(r.content) = 0 \/ r.content[1].type # "text")
TextNotJSON(r) ==
    r.kind = "message" /\ Len(r.content) > 0 /\ r.content[1].type = "text"
    /\ ~r.content[1].text.valid
TextIsJSON(r) ==
    r.kind = "message" /\ Len(r.content) > 0 /\ r.content[1].type = "text"
    /\ r.content[1].text.valid

\* the call resolved with the heuristic score of the project it was given
IsHeuristicScore(a, p) ==
    a.status = "resolved" /\ a.value = ToJS(getMockScore(p, a.value.lastUpdated))

\* C2: with a credential, analyzeSpec never rejects, and when the external call
\* throws, the first content block is not text or the text is not JSON, it
\* resolves with exactly the heuristic score of the same graph.
C2_FailureFallsBack ==
    (apiKey /\ analysis # None) =>
        /\ analysis.status = "resolved"
        /\ (\/ CallThrew(analysis.response)
            \/ FirstBlockNotText(analysis.response)
            \/ TextNotJSON(analysis.response))
               => IsHeuristicScore(analysis, analysed)

C2_Witness ==
    /\ apiKey
    /\ analysis # None
    /\ TextNotJSON(analysis.response)
    /\ Len(analysed.nodes) >= 1
    /\ IsHeuristicScore(analysis, analysed)

HasProp(v, k) == v.t = "object" /\ k \in DOMAIN v.props

\* the document lacks a required field of the score schema
LacksRequired(doc) ==
    \/ ~HasProp(doc, "overall")
    \/ \E name \in DimensionNames :
          ~HasProp(doc, name) \/ ~HasProp(doc.props[name], "score")

\* C3: when the response is valid JSON lacking a required field (overall, a
\* dimension object or a dimension's score), analyzeSpec returns the heuristic
\* score of the graph, never a SpecScore with an undefined score.
C3_MissingFieldFallsBack ==
    (apiKey /\ analysis # None /\ TextIsJSON(analysis.response)
        /\ LacksRequired(analysis.response.content[1].text.value)) =>
        /\ IsHeuristicScore(analysis, analysed)
        /\ analysis.value.overall # JUndefined
        /\ \A name \in DimensionNames : analysis.value[name].score # JUndefined

\* C4: with no credential, analyzeSpec returns the heuristic score and
\* autogenField the templated mock result, no external call is ever issued, and
\* the only failure reported is that of a node that is not in the project.
C4_NoCredential ==
    ~apiKey =>
        /\ extCalls = 0
        /\ (analysis # None => IsHeuristicScore(analysis, analysed))
        /\ (autogen # None =>
              /\ autogen.status = "resolved"
              /\ autogen.value = getMockAutogenResult(autogenCtx)
              /\ autogen.value.success = HasNode(autogenCtx.project, autogenCtx.nodeId)
              /\ (~autogen.value.success => autogen.value.error = "Node not found"))

C4_Witness ==
    /\ ~apiKey
    /\ analysis # None
    /\ autogen # None
    /\ autogen.value.success
    /\ Len(analysed.nodes) >= 1
    /\ extCalls = 0

----------------------------------------------------------------------------
(* Properties of the field inference helpers *)

FieldKind(r) == r \in {JStr(f) : f \in AutogenFields}

\* C11: inferFieldFromIssue returns one of the six field kinds or null for every
\* issue; an issue whose field is one of the six names gives that field kind
\* whatever its message and dimension, and an issue whose field is any other
\* name gives null.
C11_ExplicitFieldWins ==
    (infer # None /\ infer.of = "issue") =>
        /\ FieldKind(infer.result) \/ infer.result = JNull
        /\ infer.issue.field \in AutogenFields => infer.result = JStr(infer.issue.field)
        /\ (infer.issue.field # Undefined /\ infer.issue.field \notin AutogenFields)
               => infer.result = JNull

Mentioned(suggestion, p) ==
    {i \in 1..Len(p.nodes) : includes(suggestion, p.nodes[i].data.name)}

Min(S) == CHOOSE x \in S : \A y \in S : x <= y

\* C12: inferFieldFromSuggestion targets the first node, in graph order, whose
\* name occurs in the suggestion, the first node of the graph when no name
\* occurs, and returns null exactly when the graph has no nodes; the suggestion
\* "Add detailed behavior descriptions with error handling to each node." gives
\* field behavior with the id of that node.
C12_TargetNode ==
    (infer # None /\ infer.of = "suggestion") =>
        LET nodes == infer.project.nodes
            named == Mentioned(infer.suggestion, infer.project)
            chosen == IF named # {} THEN Min(named) ELSE 1
        IN /\ infer.result = JNull <=> Len(nodes) = 0
           /\ Len(nodes) > 0 =>
                 /\ infer.result.t = "target"
                 /\ infer.result.nodeId = nodes[chosen].id
                 /\ infer.result.field \in AutogenFields
                 /\ infer.suggestion = AllSuggestions[1] => infer.result.field = "behavior"

\* a suggestion naming two nodes has been resolved to the first of them in graph
\* order, which is not the one named first in the text
C12_Witness ==
    /\ infer # None
    /\ infer.of = "suggestion"
    /\ infer.suggestion = "Connect New Process to New Output."
    /\ Mentioned(infer.suggestion, infer.project) = {1, 2}
    /\ infer.project.nodes[1].type = "output"
    /\ infer.result = Target("behavior", infer.project.nodes[1].id)

\* C13: autogenField never rejects; for a nodeId that no node of the project
\* has it resolves, with or without a credential, with success = false and
\* error 'Node not found', and issues no external call.
C13_NodeNotFound ==
    autogen # None =>
        /\ autogen.status = "resolved"
        /\ ~HasNode(autogenCtx.project, autogenCtx.nodeId) =>
              /\ autogen.value.success = FALSE
              /\ autogen.value.error = "Node not found"
              /\ autogen.value.field = autogenCtx.field
              /\ autogen.response = None

\* with a credential, a request for a node that is not in a non-empty project
\* has been answered
C13_Witness ==
    /\ apiKey
    /\ autogen # None
    /\ Len(autogenCtx.project.nodes) > 0
    /\ autogenCtx.nodeId = MissingNodeId
    /\ autogen.value.success = FALSE

----------------------------------------------------------------------------
(* Properties of SpecOMeter *)

AutoCalls == {i \in 1..Len(inflight) : inflight[i].by = "auto"}
ManualCalls == {i \in 1..Len(inflight) : inflight[i].by = "manual"}

\* C15: isAnalyzing is true exactly while at least one analyzeSpec call started
\* by SpecOMeter has not completed.
C15_FlagTracksInflight == isAnalyzing <=> inflight # <<>>

\* C14: an automatic analysis starts only after 2000 ms without a change of
\* nodes, edges or system context and only if the content hash differs from the
\* last analysed hash; after every change exactly one automatic analysis is
\* produced (pending or started), run on the content of the last change.
C14_DebounceAsStated ==
    /\ \A i \in AutoCalls :
          /\ inflight[i].start.sinceChange >= DebounceMs
          /\ ~inflight[i].start.known
          /\ inflight[i].start.current
    /\ \/ (debounceRef # None /\ settle.autos = 0)
       \/ (debounceRef = None /\ settle.autos = 1)

\* C14 (amended): an automatic analysis starts only after 2000 ms without a
\* change, on the content of the last change, and only if that content's hash
\* differed from the last analysed hash when the change arrived; since the last
\* change at most one automatic analysis has started, and one is pending or has
\* started exactly when the hash differed at that change.
C14_Debounce ==
    /\ \A i \in AutoCalls :
          /\ inflight[i].start.sinceChange >= DebounceMs
          /\ inflight[i].start.differed
          /\ inflight[i].start.current
    /\ settle.autos <= 1
    /\ debounceRef # None =>
          /\ settle.autos = 0
          /\ projectHash(debounceRef.project) = projectHash(project)
          /\ debounceRef.age <= sinceChange
    /\ settle.differed <=> (debounceRef # None \/ settle.autos = 1)

\* after an edit of a node, the timer has run out and its analysis is awaited
C14_Witness ==
    /\ Len(project.nodes) > 0
    /\ project.nodes[1].data.name = "Validate Input"
    /\ \E i \in AutoCalls : projectHash(inflight[i].project) = projectHash(project)
    /\ settle.autos = 1

\* C16: a click on Refresh starts one analysis of the current project at once,
\* whatever the debounce state: also when the hash is the analysed one and when
\* a timer is pending; the timer is left as it is.
C16_ManualAlwaysRuns ==
    /\ [](((Quiet /\ callsLeft > 0 /\ ~isAnalyzing) => ENABLED handleManualAnalyze))
    /\ [][callsLeft' # callsLeft =>
             /\ Len(inflight') = Len(inflight) + 1
             /\ inflight'[Len(inflight')].by = "manual"
             /\ inflight'[Len(inflight')].project = project
             /\ SubSeq(inflight', 1, Len(inflight)) = inflight
             /\ UNCHANGED <<debounceRef, lastAnalyzedRef>>]_vars

\* a manual analysis is awaited that was started on analysed content while a
\* timer was pending
C16_Witness ==
    \E i \in ManualCalls : inflight[i].start.known /\ inflight[i].start.pending

\* C18: the stored specScore is exactly the SpecScore returned by the pass that
\* completed last (none before the first); nothing of an earlier score survives.
C18_ScoreReplaced ==
    IF lastCompleted = None THEN specScore = None
    ELSE specScore = lastCompleted.value

\* a pass has replaced a score that had issues by one that has none of them
C18_Witness ==
    /\ lastCompleted # None
    /\ lastCompleted.before # None
    /\ Len(lastCompleted.before.issues) > 0
    /\ specScore # lastCompleted.before
    /\ \A i \in 1..Len(specScore.issues) :
          \A j \in 1..Len(lastCompleted.before.issues) :
              specScore.issues[i] # lastCompleted.before.issues[j]

----------------------------------------------------------------------------
(* Properties of JSON export and import *)

\* C17: exporting the project as JSON and importing that text gives a store
\* project with the same nodes (id, type, data), the same edges (source, target,
\* handles, data with its label) and the same system context as at the export.
C17_RoundTrip ==
    imported # None =>
        /\ imported.loaded.nodes = imported.from.nodes
        /\ imported.loaded.edges = imported.from.edges
        /\ imported.loaded.systemContext = imported.from.systemContext

\* a project with an edge without handles was exported, a node was renamed, and
\* the import has brought the exported project back
C17_Witness ==
    /\ imported # None
    /\ imported.before # imported.from
    /\ imported.loaded # imported.before
    /\ \E i \in 1..Len(imported.before.nodes) : imported.before.nodes[i].data.name = ""
    /\ \E i \in 1..Len(imported.loaded.edges) :
          imported.loaded.edges[i].sourceHandle = Undefined

----------------------------------------------------------------------------
(* Properties of the issues of the heuristic scorer *)

IsIntentIssue(issue, nodeId) ==
    /\ issue.severity = "warning"
    /\ issue.dimension = "ambiguity"
    /\ issue.field = "intent"
    /\ issue.nodeId = nodeId

IntentIssueCount(s, nodeId) ==
    Cardinality({i \in 1..Len(s.issues) : IsIntentIssue(s.issues[i], nodeId)})

\* C19: for each node of a non-empty graph the scorer emits exactly one warning
\* issue with dimension ambiguity, field 'intent' and the node's id if the
\* node's intent is shorter than 20 characters or starts with 'Describe', and
\* none otherwise.
C19_IntentIssues ==
    score # None =>
        \A i \in 1..Len(scored.nodes) :
            LET node == scored.nodes[i]
            IN IntentIssueCount(score, node.id) =
                  (IF Len(node.data.intent) < 20 \/ StartsWith(node.data.intent, "Describe")
                   THEN 1 ELSE 0)

\* a graph was scored in which one node has an intent of exactly 20 characters
\* and no issue, and another a long intent starting with 'Describe' and an issue
C19_Witness ==
    /\ score # None
    /\ \E i \in 1..Len(scored.nodes) :
          /\ Len(scored.nodes[i].data.intent) = 20
          /\ IntentIssueCount(score, scored.nodes[i].id) = 0
    /\ \E i \in 1..Len(scored.nodes) :
          /\ Len(scored.nodes[i].data.intent) > 20
          /\ IntentIssueCount(score, scored.nodes[i].id) = 1

HasType(p, type) == \E i \in 1..Len(p.nodes) : p.nodes[i].type = type

InfoIssueCount(s, message) ==
    Cardinality({i \in 1..Len(s.issues) :
                    s.issues[i].severity = "info" /\ s.issues[i].message = message})

SuggestsTrigger(s) ==
    InfoIssueCount(s, "Consider adding a Trigger node to define how the flow starts.")

SuggestsOutput(s) ==
    InfoIssueCount(s, "Consider adding an Output node to define the flow result.")

Retyped(p, type) ==
    [p EXCEPT !.nodes = [i \in 1..Len(@) |-> [@[i] EXCEPT !.type = type]]]

SameScores(a, b) ==
    /\ a.overall = b.overall
    /\ a.completeness.score = b.completeness.score
    /\ a.ambiguity.score = b.ambiguity.score
    /\ a.consistency.score = b.consistency.score
    /\ a.groundedness.score = b.groundedness.score

\* C20: the scorer emits the info issue suggesting a Trigger node exactly when
\* the graph has a node and none of type trigger, the one suggesting an Output
\* node exactly when it has a node and none of type output; the scores are
\* those of the same graph with the node types changed so that the issues come
\* or go.
C20_StructureIssues ==
    score # None =>
        /\ SuggestsTrigger(score) =
              (IF Len(scored.nodes) > 0 /\ ~HasType(scored, "trigger") THEN 1 ELSE 0)
        /\ SuggestsOutput(score) =
              (IF Len(scored.nodes) > 0 /\ ~HasType(scored, "output") THEN 1 ELSE 0)
        /\ \A type \in NodeTypes :
              SameScores(score, getMockScore(Retyped(scored, type), score.lastUpdated))

\* a graph with a trigger, an integration and no output node was scored: the
\* Output issue alone is there
C20_Witness ==
    /\ score # None
    /\ HasType(scored, "trigger")
    /\ HasType(scored, "integration")
    /\ ~HasType(scored, "output")
    /\ SuggestsTrigger(score) = 0
    /\ SuggestsOutput(score) = 1

Applies(rule, text) ==
    /\ \E k \in rule.any : includes(text, k)
    /\ \A k \in rule.without : ~includes(text, k)

\* the index of the first rule of the table that applies to the text, 0 for none
FirstRule(rules, text) ==
    LET hits == {i \in 1..Len(rules) : Applies(rules[i], text)}
    IN IF hits = {} THEN 0 ELSE Min(hits)

Rule(any, without, field) == [any |-> any, without |-> without, field |-> field]

IssueRules == <<
    Rule({"intent", "purpose"}, {}, "intent"),
    Rule({"behavior", "description", "describe"}, {}, "behavior"),
    Rule({"input"}, {"output"}, "inputs"),
    Rule({"output"}, {"input"}, "outputs"),
    Rule({"example", "edge case"}, {}, "examples"),
    Rule({"constraint", "requirement", "limit"}, {}, "constraints") >>

\* C21: for an issue without an explicit field, inferFieldFromIssue gives the
\* field of the first keyword rule that applies to the lower-cased message
\* (intent/purpose; behavior/description/describe; input without output;
\* output without input; example/edge case; constraint/requirement/limit), and
\* when none applies behavior for dimension completeness, intent for ambiguity,
\* null otherwise.  A message with both 'input' and 'output' never gives inputs
\* or outputs.
C21_KeywordRules ==
    (infer # None /\ infer.of = "issue" /\ infer.issue.field = Undefined) =>
        LET message == toLowerCase(infer.issue.message)
            first == FirstRule(IssueRules, message)
        IN /\ first > 0 => infer.result = JStr(IssueRules[first].field)
           /\ first = 0 =>
                 infer.result = (CASE infer.issue.dimension = "completeness" -> JStr("behavior")
                                   [] infer.issue.dimension = "ambiguity" -> JStr("intent")
                                   [] OTHER -> JNull)
           /\ (includes(message, "input") /\ includes(message, "output"))
                 => infer.result \notin {JStr("inputs"), JStr("outputs")}

\* a message naming both 'input' and 'output' and nothing else falls through to
\* the dimension
C21_Witness ==
    /\ infer # None
    /\ infer.of = "issue"
    /\ infer.issue.field = Undefined
    /\ infer.issue.message = "Input and output shapes do not match."
    /\ infer.issue.dimension = "consistency"
    /\ infer.result = JNull

SuggestionRules == <<
    Rule({"behavior", "description", "error handling"}, {}, "behavior"),
    Rule({"example", "edge case"}, {}, "examples"),
    Rule({"type", "shape"}, {}, "ports"),
    Rule({"constraint", "requirement"}, {}, "constraints") >>

\* C22: for a graph with at least one node inferFieldFromSuggestion always
\* returns a field, that of the first rule that applies to the lower-cased
\* suggestion: behavior/description/error handling -> behavior; example/edge
\* case -> examples; type/shape -> inputs when it has 'input', else outputs when
\* it has 'output', else inputs; constraint/requirement -> constraints;
\* otherwise behavior.
C22_SuggestionRules ==
    (infer # None /\ infer.of = "suggestion" /\ Len(infer.project.nodes) > 0) =>
        LET text == toLowerCase(infer.suggestion)
            first == FirstRule(SuggestionRules, text)
            field == IF first = 0 THEN "behavior"
                     ELSE IF SuggestionRules[first].field # "ports"
                     THEN SuggestionRules[first].field
                     ELSE IF includes(text, "input") THEN "inputs"
                     ELSE IF includes(text, "output") THEN "outputs"
                     ELSE "inputs"
        IN /\ infer.result # JNull
           /\ infer.result.t = "target"
           /\ infer.result.field \in AutogenFields
           /\ infer.result.field = field

\* a suggestion about types that names both inputs and outputs gives inputs
C22_Witness ==
    /\ infer # None
    /\ infer.of = "suggestion"
    /\ Len(infer.project.nodes) > 0
    /\ infer.suggestion = AllSuggestions[2]
    /\ includes(toLowerCase(infer.suggestion), "output")
    /\ infer.result.field = "inputs"

----------------------------------------------------------------------------
(* Properties of the templated autogeneration fallback *)

\* the request was answered by getMockAutogenResult
FellBack ==
    /\ autogen # None
    /\ ~apiKey \/ tryAutogen(autogenCtx, autogen.response).threw

\* a request for the same field on a node with the same id, name and type (and,
\* for a port field, the same ports of that kind) in a project that holds
\* nothing else
Bare(context) ==
    LET node == findNode(context.project, context.nodeId)
        data == [name |-> node.data.name,
                 intent |-> "",
                 inputs |-> IF context.field = "inputs" THEN node.data.inputs ELSE <<>>,
                 outputs |-> IF context.field = "outputs" THEN node.data.outputs ELSE <<>>,
                 behavior |-> "",
                 examples |-> <<>>,
                 constraints |-> <<>>]
    IN [project |-> [systemContext |-> defaultSystemContext,
                     nodes |-> <<[id |-> node.id, type |-> node.type, data |-> data]>>,
                     edges |-> <<>>],
        nodeId |-> context.nodeId,
        field |-> context.field,
        issueMessage |-> ""]

\* ports is the same list as before with shape 'unknown' and an empty
\* description replaced, or the single generic port for an empty list
Completed(ports, before, shape, prefix, generic) ==
    IF before = <<>> THEN ports = <<generic>>
    ELSE /\ Len(ports) = Len(before)
         /\ \A i \in 1..Len(before) :
               /\ ports[i].name = before[i].name
               /\ ports[i].shape = (IF before[i].shape = "unknown" THEN shape
                                    ELSE before[i].shape)
               /\ ports[i].description = (IF before[i].description = ""
                                          THEN prefix \o before[i].name
                                          ELSE before[i].description)

\* C23: the templated fallback of autogenField does not read the content: the
\* value equals that of the same request on a node with the same name and type
\* and no intent, behavior, examples, constraints, edges, system context or issue
\* message; for inputs and outputs it is the node's ports of that kind in the
\* same order with shape 'unknown' and an empty description replaced by the
\* generic defaults, or a single generic port when the node has none.
C23_TemplateIgnoresContent ==
    (FellBack /\ HasNode(autogenCtx.project, autogenCtx.nodeId)) =>
        LET node == findNode(autogenCtx.project, autogenCtx.nodeId)
        IN /\ autogen.value = getMockAutogenResult(Bare(autogenCtx))
           /\ autogen.value.success
           /\ autogenCtx.field = "inputs" =>
                 Completed(autogen.value.value.items, node.data.inputs,
                           "{ data: unknown }", "Input data for ",
                           Port("input", "Primary input data", "{ data: unknown }"))
           /\ autogenCtx.field = "outputs" =>
                 Completed(autogen.value.value.items, node.data.outputs,
                           "{ result: unknown }", "Output data from ",
                           Port("output", "Primary output data", "{ result: unknown }"))

\* an intent was templated for a node whose intent had been written by hand,
\* and it is the one templated for an untouched node of that type
C23_Witness ==
    /\ FellBack
    /\ autogenCtx.field = "intent"
    /\ HasNode(autogenCtx.project, autogenCtx.nodeId)
    /\ findNode(autogenCtx.project, autogenCtx.nodeId).type = "process"
    /\ findNode(autogenCtx.project, autogenCtx.nodeId).data.intent = "Validate the input"
    /\ autogen.value.value = JStr("Process and transform process operations")

----------------------------------------------------------------------------
(* Properties of the scores analyzeSpec returns *)

Severities == {"error", "warning", "info"}

\* the call returned the document the external model answered with, normalised
ModelAssisted ==
    /\ apiKey
    /\ analysis # None
    /\ analysis.response # None
    /\ ~tryAnalyze(analysis.response, 1).threw

\* C24: every issue of every SpecScore analyzeSpec returns has a severity among
\* error, warning, info and a dimension among the four dimension names; in
\* model-assisted mode an issue without severity gets warning, one without
\* dimension gets completeness, and absent details / issues / suggestions
\* arrays become empty lists.
C24_IssuesWellFormed ==
    analysis # None =>
        /\ \A i \in 1..Len(analysis.value.issues) :
              /\ analysis.value.issues[i].severity \in {JStr(x) : x \in Severities}
              /\ analysis.value.issues[i].dimension \in {JStr(x) : x \in DimensionNames}
        /\ ModelAssisted =>
              LET doc == analysis.response.content[1].text.value
                  items == IF HasProp(doc, "issues") THEN doc.props.issues.items ELSE <<>>
              IN /\ Len(analysis.value.issues) = Len(items)
                 /\ \A i \in 1..Len(items) :
                       /\ ~HasProp(items[i], "severity")
                             => analysis.value.issues[i].severity = JStr("warning")
                       /\ ~HasProp(items[i], "dimension")
                             => analysis.value.issues[i].dimension = JStr("completeness")
                 /\ ~HasProp(doc, "suggestions") => analysis.value.suggestions = JArr(<<>>)
                 /\ \A name \in DimensionNames :
                       ~HasProp(doc.props[name], "details")
                          => analysis.value[name].details = JArr(<<>>)

IsScore(v) == v.t = "number" /\ InRange(v.n)

\* C29: in model-assisted mode, whatever JSON the model returns, the overall
\* score and the four dimension scores of the returned SpecScore are numbers
\* within [0, 100].
C29_ModelScoresInRange ==
    ModelAssisted =>
        /\ IsScore(analysis.value.overall)
        /\ \A name \in DimensionNames : IsScore(analysis.value[name].score)

----------------------------------------------------------------------------
(* Properties of the score SpecOMeter leaves in the store *)

\* nothing awaited, no timer pending, and a pass has completed
Quiescent == inflight = <<>> /\ debounceRef = None /\ lastCompleted # None

C26_ScoreStaysWithProject ==
    lastCompleted # None => lastCompleted.ofId = lastCompleted.intoId

\* C27: once the content stops changing, and provided that time passes, due
\* timers fire and awaited calls settle, eventually no timer is pending and
\* either an analysis of the final content has been started since the last
\* change or the hash of the final content was the last analysed one when that
\* change arrived; and eventually isAnalyzing is false.
C27_TriggerSettles ==
    /\ <>[](debounceRef = None /\ (settle.autos > 0 \/ ~settle.differed))
    /\ <>[](~isAnalyzing)

\* two changes were made, the analysis of the final content was started by the
\* timer and has completed
C27_Witness ==
    /\ opsLeft = 0
    /\ Len(project.nodes) >= 1
    /\ debounceRef = None
    /\ settle.differed
    /\ settle.autos = 1
    /\ inflight = <<>>
    /\ ~isAnalyzing
    /\ lastAnalyzedRef = projectHash(project)

----------------------------------------------------------------------------
(* Properties of the graph in the store *)

NoDanglingEdge ==
    \A i \in 1..Len(project.edges) :
        /\ project.edges[i].source \in NodeIds(project)
        /\ project.edges[i].target \in NodeIds(project)

\* a step that removes nodes clears the selection when the selected node is
\* among them and leaves it alone otherwise
DeletionKeepsSelection ==
    LET gone == NodeIds(project) \ NodeIds(project')
    IN gone # {} =>
          selectedNodeId' = (IF selectedNodeId \in gone THEN Null ELSE selectedNodeId)

\* C28: starting from the empty project, after any sequence of addNode,
\* updateNode, addEdge between existing nodes, deleteEdge and deleteNode, the
\* source and the target of every edge are ids of nodes of the project;
\* deleting the selected node clears selectedNodeId and deleting another node
\* leaves it unchanged.
C28_NoDanglingEdges ==
    /\ []NoDanglingEdge
    /\ [][DeletionKeepsSelection]_vars

\* two nodes were added and connected, and the second, which was selected, has
\* been deleted together with the edge
C28_Witness ==
    /\ opsLeft = 0
    /\ nextId = 4
    /\ NodeIds(project) = {randomUUID(1)}
    /\ project.edges = <<>>
    /\ selectedNodeId = Null

----------------------------------------------------------------------------
(* Properties of the import *)

\* the text is JSON for an object with nodes, edges and a system context
WellFormedFile(text) ==
    /\ text.valid
    /\ text.value.t = "object"
    /\ GetProp(text.value, "nodes").t = "array"
    /\ GetProp(text.value, "edges").t = "array"
    /\ GetProp(text.value, "systemContext").t = "object"

\* C30: importing a file that is not a well-formed project (not JSON, or JSON
\* without nodes, edges or systemContext) is rejected with 'Invalid VOPL file
\* format' and leaves the store's project unchanged, so that a later analysis
\* returns a score instead of throwing.
C30_InvalidImportRejected ==
    (imported # None /\ ~WellFormedFile(imported.text)) =>
        /\ imported.alert
        /\ imported.loaded = imported.before
        /\ ~analyzeSpecRejects


====
